---- MODULE Spec2Model ----
(***************************************************************************)
(* Model of the OMIS status-ingestion pipeline (project_package/project):  *)
(* the request store of database.py, the mail pipeline of mail_checker.py *)
(* and the notifier of notifier.py.  Russian string literals of the source are written in  *)
(* Latin transliteration; text is modelled as a sequence of words.         *)
(***************************************************************************)
EXTENDS Integers, Sequences, FiniteSets, TLC

VARIABLES
    requests,   \* rows of table "requests" (database.py:67-77)
    nextId,     \* next AUTOINCREMENT id
    clock,      \* _utc_now(), in whole seconds
    ret,        \* what the latest store call handed back: return value or exception
    log,        \* records logged by the running top-level operation
    inbox,      \* the items of the Outlook mailbox
    pc,         \* where process_mailbox stands
    fetch,      \* locals of the generator fetch_contractor_messages and its adapter
    proc,       \* locals of process_mailbox: message, status_applied, results
    trace,      \* history of the run: candidates taken, messages yielded with their backend
    prev,       \* the messages and the table at the end of the previous completed run
    config,     \* config.TELEGRAM_TOKEN and config.TELEGRAM_CHAT_ID
    http,       \* the calls of request.urlopen made so far, each with what came back
    runs,       \* the process_mailbox runs that work on the store at the same time
    page        \* what the web application answered to the latest form submission

\* ------------------------------------------------------------------ bounds
MaxClock == 1
\* process_mailbox is run at most MaxRuns times
MaxRuns == 2

\* --------------------------------------------------------------- constants
DEFAULT_STATUS == "zayavka otpravlena"
ROBOT_AUTHOR == "Robot"
None == "None"

RequestNumbers == {"101", "102"}
PositionNumbers == {"12", "8"}
\* the keys a caller adds: two positions of one request, and another request
Keys == {<<"101", "12">>, <<"101", "8">>, <<"102", "8">>}
StatusInputs == {"podryadchik v puti"}
ManualComment == <<"manual">>
ManualAuthor == "Tester"
CommentInputs == {<<"note">>}
Faults == {"none", "commit"}

\* ------------------------------------------------------------------ logging
LogRec(level, logger, event) == [level |-> level, logger |-> logger, event |-> event]

\* _connect: a fault inside the with-block is rolled back and logged by _connect before
\* it is re-raised.
ConnectLog(fault) ==
    IF fault = "commit"
    THEN <<LogRec("ERROR", "database", "Database error")>>
    ELSE <<>>

\* ------------------------------------------------------------- store tables
NoUniqueConstraint(rows, request_number, position_number) == FALSE

\* UNIQUE(request_number, position_number)
ViolatesUnique(rows, request_number, position_number) ==
    \E r \in rows : /\ r.request_number = request_number
                    /\ r.position_number = position_number

InsertRowStale(rows, id, request_number, position_number, comment, comment_author, timestamp) ==
    rows \cup {[id |-> id,
                request_number |-> request_number,
                position_number |-> position_number,
                comment |-> comment,
                comment_author |-> comment_author,
                status |-> DEFAULT_STATUS,
                created_at |-> 0,
                status_updated_at |-> timestamp]}

InsertRow(rows, id, request_number, position_number, comment, comment_author, timestamp) ==
    rows \cup {[id |-> id,
                request_number |-> request_number,
                position_number |-> position_number,
                comment |-> comment,
                comment_author |-> comment_author,
                status |-> DEFAULT_STATUS,
                created_at |-> timestamp,
                status_updated_at |-> timestamp]}

WhereRequestOnly(r, request_number, position_number) ==
    r.request_number = request_number

\* WHERE request_number = ? [AND position_number = ?]
WhereClause(r, request_number, position_number) ==
    /\ r.request_number = request_number
    /\ (position_number # None => r.position_number = position_number)

\* UPDATE requests SET status = ?, status_updated_at = ? WHERE ...
SetStatusKeepTime(rows, new_status, timestamp, request_number, position_number) ==
    {IF WhereClause(r, request_number, position_number)
     THEN [r EXCEPT !.status = new_status]
     ELSE r : r \in rows}

SetStatusOrInsert(rows, new_status, timestamp, request_number, position_number) ==
    IF \E r \in rows : WhereClause(r, request_number, position_number)
    THEN {IF WhereClause(r, request_number, position_number)
          THEN [r EXCEPT !.status = new_status, !.status_updated_at = timestamp]
          ELSE r : r \in rows}
    ELSE rows \cup {[id |-> Cardinality(rows) + 1,
                     request_number |-> request_number,
                     position_number |-> position_number,
                     comment |-> <<>>,
                     comment_author |-> ROBOT_AUTHOR,
                     status |-> new_status,
                     created_at |-> timestamp,
                     status_updated_at |-> timestamp]}

SetStatusAndCreated(rows, new_status, timestamp, request_number, position_number) ==
    {IF WhereClause(r, request_number, position_number)
     THEN [r EXCEPT !.status = new_status, !.status_updated_at = timestamp,
                    !.created_at = timestamp]
     ELSE r : r \in rows}

SetStatusOnce(rows, new_status, timestamp, request_number, position_number) ==
    {IF WhereClause(r, request_number, position_number) /\ r.status = DEFAULT_STATUS
     THEN [r EXCEPT !.status = new_status, !.status_updated_at = timestamp]
     ELSE r : r \in rows}

SetStatus(rows, new_status, timestamp, request_number, position_number) ==
    {IF WhereClause(r, request_number, position_number)
     THEN [r EXCEPT !.status = new_status, !.status_updated_at = timestamp]
     ELSE r : r \in rows}

AppendComment(old, comment) == old \o comment

\* the value the UPDATE of update_comment stores in column comment
NewComment(old, comment) == comment

SetCommentKeepAuthor(rows, comment, author, request_number, position_number) ==
    {IF WhereClause(r, request_number, position_number)
     THEN [r EXCEPT !.comment = comment]
     ELSE r : r \in rows}

\* UPDATE requests SET comment = ?, comment_author = ? WHERE ...
SetComment(rows, comment, author, request_number, position_number) ==
    {IF WhereClause(r, request_number, position_number)
     THEN [r EXCEPT !.comment = NewComment(r.comment, comment), !.comment_author = author]
     ELSE r : r \in rows}

RowCountOfRequest(rows, request_number, position_number) ==
    Cardinality({r \in rows : r.request_number = request_number})

\* cursor.rowcount
RowCount(rows, request_number, position_number) ==
    Cardinality({r \in rows : WhereClause(r, request_number, position_number)})

\* ORDER BY datetime(status_updated_at) DESC: every listing of the rows in which no row
\* comes before a row with a later status_updated_at (ties in any order)
Listings(rows) ==
    {s \in [1..Cardinality(rows) -> rows] :
        /\ \A i, j \in 1..Cardinality(rows) : i # j => s[i] # s[j]
        /\ \A i, j \in 1..Cardinality(rows) :
              i < j => s[i].status_updated_at >= s[j].status_updated_at}

Min(a, b) == IF a < b THEN a ELSE b

\* LIMIT ?
Limited(s, limit) == IF limit = <<>> THEN s ELSE SubSeq(s, 1, Min(limit[1], Len(s)))

\* ------------------------------------------------------- store operations
\* What a call hands back to its caller: the exception it raised, or its return value
\* (id: add_request, updated: update_status and update_comment, rows: get_requests).
NoReturn == [raised |-> None, id |-> 0, updated |-> FALSE, rows |-> <<>>]
ReturnedId(id) == [NoReturn EXCEPT !.id = id]
ReturnedBool(updated) == [NoReturn EXCEPT !.updated = updated]
ReturnedRows(rows) == [NoReturn EXCEPT !.rows = rows]
Raised(exc) == [NoReturn EXCEPT !.raised = exc]

\* The outcome of one call: the table after it, the id counter, what the caller gets,
\* and what was logged.
Outcome(rows, id, returned, logged) ==
    [requests |-> rows, nextId |-> id, ret |-> returned, log |-> logged]

NoRollback(before, after) == after

\* connection.rollback(): the statements of the with-block are undone
Rollback(before, after) == before

\* fault: the sqlite3.Error (other than a constraint violation) that strikes the call:
\* "commit" when the storage fails inside the with-block of _connect, after the statement
\* ran (rollback, re-raise); "none" when the storage works.
add_request(rows, id, now, request_number, position_number, comment, comment_author, fault) ==
    LET conflict == ViolatesUnique(rows, request_number, position_number) IN
    IF conflict
    THEN Outcome(rows, id, Raised("IntegrityError"),
                 <<LogRec("ERROR", "database", "Database error"),
                   LogRec("ERROR", "database", "already exists")>>)
    ELSE IF fault # "none"
    THEN Outcome(Rollback(rows, InsertRow(rows, id, request_number, position_number,
                                          comment, comment_author, now)),
                 id, Raised("Error"),
                 ConnectLog(fault)
                 \o <<LogRec("ERROR", "database", "Failed to insert request")>>)
    ELSE Outcome(InsertRow(rows, id, request_number, position_number,
                           comment, comment_author, now),
                 id + 1, ReturnedId(id),
                 <<LogRec("INFO", "database", "created")>>)

update_status(rows, id, now, request_number, new_status, position_number, fault) ==
    LET updated == RowCount(rows, request_number, position_number) > 0 IN
    IF fault # "none"
    THEN Outcome(Rollback(rows, SetStatus(rows, new_status, now, request_number,
                                          position_number)),
                 id, Raised("Error"),
                 ConnectLog(fault)
                 \o <<LogRec("ERROR", "database", "Failed to update status")>>)
    ELSE Outcome(SetStatus(rows, new_status, now, request_number, position_number),
                 id, ReturnedBool(updated),
                 IF updated
                 THEN <<LogRec("INFO", "database", "Updated request")>>
                 ELSE <<LogRec("WARNING", "database", "No request found (status)")>>)

update_comment(rows, id, request_number, comment, position_number, author, fault) ==
    LET updated == RowCount(rows, request_number, position_number) > 0 IN
    IF fault # "none"
    THEN Outcome(Rollback(rows, SetComment(rows, comment, author, request_number,
                                           position_number)),
                 id, Raised("Error"),
                 ConnectLog(fault)
                 \o <<LogRec("ERROR", "database", "Failed to update comment")>>)
    ELSE Outcome(SetComment(rows, comment, author, request_number, position_number),
                 id, ReturnedBool(updated),
                 IF updated
                 THEN <<LogRec("INFO", "database", "Updated comment")>>
                 ELSE <<LogRec("WARNING", "database", "No request found (comment)")>>)

\* listing: the order in which the engine returns the rows
get_requests(rows, id, listing, limit, fault) ==
    IF fault # "none"
    THEN Outcome(Rollback(rows, rows), id, Raised("Error"),
                 ConnectLog(fault)
                 \o <<LogRec("ERROR", "database", "Failed to fetch requests")>>)
    ELSE Outcome(rows, id, ReturnedRows(Limited(listing, limit)),
                 <<LogRec("DEBUG", "database", "fetched")>>)

\* ------------------------------------------------------- text and classifier
\* A text is a sequence of words; a body is a sequence of lines.  str.lower():
Lower(word) ==
    CASE word = "REQ" -> "req"
      [] word = "Zayavka" -> "zayavka"
      [] word = "Poziciya" -> "poziciya"
      [] word = "Podryadchik" -> "podryadchik"
      [] word = "Pribyl" -> "pribyl"
      [] OTHER -> word

Digits == {"101", "102", "12", "8", "30"}

\* (?:zayavk[ai]|req), re.IGNORECASE
REQUEST_RE == {"zayavka", "zayavki", "req"}

\* (?:pozici[yai]|pos), re.IGNORECASE ("poziciyu" is no match)
POSITION_RE == {"poziciya", "pozicii", "pos"}

MinOf(S) == CHOOSE x \in S : \A y \in S : x <= y

\* pattern.search(text): the leftmost keyword that digits follow, then [^0-9]* up to
\* the first digits after it; None without a match
Search(pattern, text) ==
    LET starts == {i \in DOMAIN text :
                      /\ Lower(text[i]) \in pattern
                      /\ \E j \in DOMAIN text : j > i /\ text[j] \in Digits}
    IN IF starts = {} THEN None
       ELSE text[MinOf({j \in DOMAIN text : j > MinOf(starts) /\ text[j] \in Digits})]

RECURSIVE Flatten(_)
Flatten(lines) == IF lines = <<>> THEN <<>> ELSE Head(lines) \o Flatten(Tail(lines))

_extract_numbers_together(subject, body) ==
    LET inSubject == [request |-> Search(REQUEST_RE, subject),
                      position |-> Search(POSITION_RE, subject)]
        inBody == [request |-> Search(REQUEST_RE, Flatten(body)),
                   position |-> Search(POSITION_RE, Flatten(body))]
    IN IF inSubject.request # None \/ inSubject.position # None
       THEN [request_number |-> inSubject.request, position_number |-> inSubject.position]
       ELSE [request_number |-> inBody.request, position_number |-> inBody.position]

\* for text in (subject, body): each number is taken from the first text that has it
_extract_numbers(subject, body) ==
    LET inSubject == [request |-> Search(REQUEST_RE, subject),
                      position |-> Search(POSITION_RE, subject)]
        inBody == [request |-> Search(REQUEST_RE, Flatten(body)),
                   position |-> Search(POSITION_RE, Flatten(body))]
    IN [request_number |-> IF inSubject.request # None THEN inSubject.request
                           ELSE inBody.request,
        position_number |-> IF inSubject.position # None THEN inSubject.position
                            ELSE inBody.position]

\* STATUS_KEYWORDS, in declaration order
STATUS_KEYWORDS ==
    <<[status |-> "zayavka prinyata", keywords |-> {"prinyat", "prinyata", "podtverzhd"}],
      [status |-> "podryadchik v puti", keywords |-> {"v puti", "vyeh"}],
      [status |-> "podryadchik na meste", keywords |-> {"na meste", "pribyl"}],
      [status |-> "podryadchik ubyl", keywords |-> {"ubyl", "zavershil", "zakonch"}]>>

\* the keywords that occur in a lower-cased word (keyword in lowered)
KeywordsIn(word) ==
    CASE word = "prinyata" -> {"prinyat", "prinyata"}
      [] word = "podtverzhdayu" -> {"podtverzhd"}
      [] word = "v puti" -> {"v puti"}
      [] word = "vyehal" -> {"vyeh"}
      [] word = "na meste" -> {"na meste"}
      [] word = "pribyl" -> {"pribyl"}
      [] word = "ubyl" -> {"ubyl"}
      [] word = "zavershil" -> {"zavershil"}
      [] OTHER -> {}

LastHit(hits) == CHOOSE k \in hits : \A j \in hits : j <= k

\* for status, keywords in STATUS_KEYWORDS.items(): the first entry that has a keyword
\* in the text returns
FirstHit(hits) == MinOf(hits)

_detect_status(text) ==
    LET found == UNION {KeywordsIn(Lower(text[i])) : i \in DOMAIN text}
        hits == {k \in DOMAIN STATUS_KEYWORDS : STATUS_KEYWORDS[k].keywords \cap found # {}}
    IN IF hits = {} THEN None ELSE STATUS_KEYWORDS[FirstHit(hits)].status

\* str.strip() of a body, then splitlines()[0]
RECURSIVE Strip(_)
Strip(lines) ==
    IF lines = <<>> THEN <<>>
    ELSE IF Head(lines) = <<>> THEN Strip(Tail(lines))
    ELSE IF lines[Len(lines)] = <<>> THEN Strip(SubSeq(lines, 1, Len(lines) - 1))
    ELSE lines

PLACEHOLDER == <<"Informaciya iz pis'ma ne raspoznana">>

_compose_comment(subject, body) ==
    LET stripped == Strip(body)
        snippet == IF stripped = <<>> THEN <<>> ELSE Head(stripped)
    IN IF subject # <<>> /\ snippet # <<>> THEN subject \o <<"-">> \o snippet
       ELSE IF subject # <<>> THEN subject
       ELSE IF snippet # <<>> THEN snippet
       ELSE PLACEHOLDER

\* ContractorMessage(...) as the adapters build it from an item
ContractorMessage(subject, body, received_at, sender) ==
    LET numbers == _extract_numbers(subject, body) IN
    [request_number |-> IF numbers.request_number = None THEN ""
                        ELSE numbers.request_number,
     position_number |-> numbers.position_number,
     detected_status |-> _detect_status(subject \o Flatten(body)),
     comment |-> _compose_comment(subject, body),
     received_at |-> received_at,
     sender |-> sender,
     subject |-> subject]

\* received: minutes since 2025-09-27 00:00
FAKE_CONTRACTOR_MESSAGES ==
    <<[subject |-> <<"Zayavka", "101", "podryadchik", "vyehal">>,
       body |-> << <<"Zayavka", "101", "Poziciya", "12", "Podryadchik", "v puti",
                     "ozhidaem", "pribytie", "cherez", "30", "minut">> >>,
       sender |-> "contractor@example.com",
       received |-> 615],
      [subject |-> <<"REQ", "101", "podryadchik", "na meste">>,
       body |-> << <<"Podryadchik", "pribyl", "na", "poziciyu", "12",
                     "Proverka", "oborudovaniya">> >>,
       sender |-> "contractor@example.com",
       received |-> 665],
      [subject |-> <<"REQ", "102", "zaversheno">>,
       body |-> << <<"Poziciya", "8", "Raboty", "vypolneny", "podryadchik", "ubyl">> >>,
       sender |-> "contractor@example.com",
       received |-> 760]>>

_iter_fake_messages ==
    [i \in DOMAIN FAKE_CONTRACTOR_MESSAGES |->
        ContractorMessage(FAKE_CONTRACTOR_MESSAGES[i].subject,
                          FAKE_CONTRACTOR_MESSAGES[i].body,
                          FAKE_CONTRACTOR_MESSAGES[i].received,
                          FAKE_CONTRACTOR_MESSAGES[i].sender)]

\* --------------------------------------------------------- backend selection
BACKEND_AUTO == "auto"
BACKEND_OAUTH == "oauth"
BACKEND_COM == "com"
BACKEND_FAKE == "fake"
VALID_BACKENDS == {BACKEND_AUTO, BACKEND_OAUTH, BACKEND_COM, BACKEND_FAKE}

\* str.strip().lower() on the backend names a caller or the environment gives
StripLower(name) ==
    CASE name = " OAuth " -> "oauth"
      [] name = "COM" -> "com"
      [] name = "Auto" -> "auto"
      [] OTHER -> name

\* the backend argument of process_mailbox (None: not given)
BackendArguments == {None, "", "auto", "com", "fake", " OAuth ", "imap"}
\* os.getenv(BACKEND_ENV_NAME) (None: not set)
BackendEnvironment == {None, "COM", "oauth", "Auto", "pop3"}

\* explicit_backend or os.getenv(BACKEND_ENV_NAME, BACKEND_AUTO)
BackendName(explicit_backend, environment) ==
    StripLower(IF explicit_backend \notin {None, ""} THEN explicit_backend
               ELSE IF environment = None THEN BACKEND_AUTO
               ELSE environment)

BackendMappingComFirst(backend) ==
    CASE backend = BACKEND_AUTO -> <<BACKEND_COM, BACKEND_OAUTH>>
      [] backend = BACKEND_OAUTH -> <<BACKEND_OAUTH>>
      [] backend = BACKEND_COM -> <<BACKEND_COM>>
      [] backend = BACKEND_FAKE -> <<BACKEND_FAKE>>

BackendMapping(backend) ==
    CASE backend = BACKEND_AUTO -> <<BACKEND_OAUTH, BACKEND_COM>>
      [] backend = BACKEND_OAUTH -> <<BACKEND_OAUTH>>
      [] backend = BACKEND_COM -> <<BACKEND_COM>>
      [] backend = BACKEND_FAKE -> <<BACKEND_FAKE>>

_resolve_backend_sequence(use_fake, explicit_backend, environment) ==
    IF use_fake THEN <<BACKEND_FAKE>>
    ELSE IF BackendName(explicit_backend, environment) \notin VALID_BACKENDS
    THEN BackendMapping(BACKEND_AUTO)
    ELSE BackendMapping(BackendName(explicit_backend, environment))

\* the warning of _resolve_backend_sequence for a name it does not know
ResolveLog(use_fake, explicit_backend, environment) ==
    IF ~use_fake /\ BackendName(explicit_backend, environment) \notin VALID_BACKENDS
    THEN <<LogRec("WARNING", "mail_checker", "unknown backend")>>
    ELSE <<>>

\* ------------------------------------------------------------ mail settings
DEFAULT_LOOKBACK_MINUTES == 1440
DEFAULT_MAX_MESSAGES == 50

\* raw values of OMIS_OUTLOOK_LOOKBACK_MINUTES and OMIS_OUTLOOK_MAX_MESSAGES
QueryEnvironment == {[lookback |-> None, max |-> None],
                     [lookback |-> "abc", max |-> "0"],
                     [lookback |-> "0", max |-> None]}

\* int(raw): the digit strings of IntEnvironment
IsInt(raw) == raw \in {"0"}
IntOf(raw) == CASE raw = "0" -> 0

_safe_int_env(raw, default) ==
    IF raw = None \/ ~IsInt(raw) THEN default ELSE IntOf(raw)

SafeIntLog(raw) ==
    IF raw # None /\ ~IsInt(raw)
    THEN <<LogRec("WARNING", "mail_checker", "invalid integer")>>
    ELSE <<>>

Max(a, b) == IF a > b THEN a ELSE b

_load_common_mail_settings(lookback_raw, max_raw) ==
    [lookback_minutes |-> Max(1, _safe_int_env(lookback_raw, DEFAULT_LOOKBACK_MINUTES)),
     max_messages |-> Max(1, _safe_int_env(max_raw, DEFAULT_MAX_MESSAGES))]

CommonSettingsLog(lookback_raw, max_raw) == SafeIntLog(lookback_raw) \o SafeIntLog(max_raw)

NoSettings == [lookback_minutes |-> 0, max_messages |-> 0]

\* the OMIS_OUTLOOK_* credentials that are empty in the environment
CredentialNames == {"OMIS_OUTLOOK_EMAIL", "OMIS_OUTLOOK_CLIENT_ID",
                    "OMIS_OUTLOOK_CLIENT_SECRET", "OMIS_OUTLOOK_TENANT_ID"}
MissingCredentials == {{}, {"OMIS_OUTLOOK_CLIENT_SECRET"}, CredentialNames}

\* _load_outlook_settings returns None when a credential is missing
OutlookSettingsLoaded(missing) == missing = {}

OutlookSettingsLog(missing) ==
    IF missing # {}
    THEN <<LogRec("WARNING", "mail_checker", "Outlook credentials missing")>>
    ELSE <<>>

\* ------------------------------------------------------------------ mailbox
\* The items of the mailbox the live backends read; age: minutes since the item was
\* received; is_message: an exchangelib Message (not a meeting request or the like).
ItemA == [subject |-> <<"REQ", "101", "vyehal">>,
          body |-> << <<>>, <<"Poziciya", "12">>, <<"spasibo">> >>,
          sender |-> "contractor@example.com", age |-> 1, is_message |-> TRUE]
ItemB == [subject |-> <<>>,
          body |-> <<>>,
          sender |-> None, age |-> 5, is_message |-> FALSE]
ItemC == [subject |-> <<"Zayavka", "101">>,
          body |-> << <<"Pribyl", "na", "poziciyu", "12">> >>,
          sender |-> "contractor@example.com", age |-> 10, is_message |-> TRUE]
ItemD == [subject |-> <<"info">>,
          body |-> << <<"pos", "8", "req", "102">> >>,
          sender |-> "dispatcher@example.com", age |-> 20, is_message |-> TRUE]
\* the mailboxes a run may find: empty; three items of two requests; two mails about
\* request 101, the older one reporting the later stage
Inboxes == {{}, {ItemA, ItemB, ItemD}, {ItemA, ItemC}}

\* order_by("-datetime_received") and items.Sort("[ReceivedTime]", True): newest first
NewestFirst(items) ==
    CHOOSE s \in [1..Cardinality(items) -> items] :
        /\ \A i, j \in 1..Cardinality(items) : i # j => s[i] # s[j]
        /\ \A i, j \in 1..Cardinality(items) : i < j => s[i].age <= s[j].age

\* folder.filter(datetime_received__gte=cutoff)
Recent(items, lookback_minutes) == {i \in items : i.age <= lookback_minutes}

FakeItems ==
    [i \in DOMAIN FAKE_CONTRACTOR_MESSAGES |->
        [subject |-> FAKE_CONTRACTOR_MESSAGES[i].subject,
         body |-> FAKE_CONTRACTOR_MESSAGES[i].body,
         sender |-> FAKE_CONTRACTOR_MESSAGES[i].sender,
         age |-> 0 - FAKE_CONTRACTOR_MESSAGES[i].received,
         is_message |-> TRUE]]

\* the ContractorMessage an adapter yields for an item; received_at in minutes, for a
\* live item relative to the time the mailbox is read
MessageOf(item) ==
    ContractorMessage(item.subject, item.body, 0 - item.age,
                      IF item.sender = None THEN "unknown@example.com" ELSE item.sender)

NoMessage == [request_number |-> "", position_number |-> None, detected_status |-> None,
              comment |-> <<>>, received_at |-> 0, sender |-> "", subject |-> <<>>]

\* what can happen before the loop of _iter_outlook_messages: the library is missing,
\* Account(...) fails, account.inbox fails (outside every try), a folder of the path
\* cannot be opened, folder.filter fails
OAuthStages == {"ok", "no exchangelib", "Account failed", "inbox raised",
                "folder failed", "filter failed"}
\* and of _iter_outlook_com_messages: pywin32 missing, CoInitialize, Dispatch,
\* GetDefaultFolder, a subfolder, Items/Sort fails
ComStages == {"ok", "no pywin32", "CoInitialize failed", "Dispatch failed",
              "Inbox failed", "subfolder failed", "Items failed"}

\* the stages whose exception no except clause of the adapter catches
Uncaught(stage) == stage = "inbox raised"

StageLog(stage) ==
    IF stage = "ok" \/ Uncaught(stage) THEN <<>>
    ELSE <<LogRec("ERROR", "mail_checker", "adapter failed")>>

\* -------------------------------------------------- fetch_contractor_messages
\* The generator's locals: the candidates the for loop has not reached yet, the current
\* candidate, yielded / yielded_any, and the adapter's settings, remaining items and
\* processed counter; raised: the exception that ended the generator.
FetchStart(candidates) ==
    [candidates |-> candidates, candidate |-> None, yielded |-> FALSE,
     yielded_any |-> FALSE, settings |-> NoSettings, items |-> <<>>,
     processed |-> 0, raised |-> None]

ProcStart == [message |-> NoMessage, status_applied |-> FALSE, results |-> <<>>]

\* run: how many runs have begun; before: the table when the run began
TraceStart(sequence, rows, run) ==
    [sequence |-> sequence, queried |-> <<>>, delivered |-> <<>>, before |-> rows,
     run |-> run]

NoRun == [valid |-> FALSE, delivered |-> <<>>, requests |-> {}]

AdapterEndContinue(yielded) == "select"

\* after the adapter's sequence is exhausted: "if yielded: return", else the next candidate
AdapterEnd(yielded) == IF yielded THEN "done" ELSE "select"

\* an exception leaves the generator and process_mailbox: their frames are gone
Unwound(exc) == [FetchStart(<<>>) EXCEPT !.raised = exc]

\* the for loop takes the next candidate
Take(f) == [f EXCEPT !.candidates = Tail(@), !.candidate = Head(f.candidates),
                     !.yielded = FALSE, !.items = <<>>, !.processed = 0]

Queried(t, candidate) == [t EXCEPT !.queried = Append(@, candidate)]

StoreUnchanged == UNCHANGED <<requests, nextId, clock, ret>>

\* process_mailbox(use_fake, backend) is called: results = [], the generator is created
\* and resolves its backend sequence
StartRun(use_fake, backend, environment) ==
    /\ pc \in {"idle", "done", "raised"}
    /\ pc' = "select"
    /\ fetch' = FetchStart(_resolve_backend_sequence(use_fake, backend, environment))
    /\ proc' = ProcStart
    /\ trace.run < MaxRuns
    /\ trace' = TraceStart(_resolve_backend_sequence(use_fake, backend, environment),
                           requests, trace.run + 1)
    /\ log' = ResolveLog(use_fake, backend, environment)
    /\ prev' = IF pc = "done"
               THEN [valid |-> TRUE, delivered |-> trace.delivered, requests |-> requests]
               ELSE NoRun
    /\ StoreUnchanged
    /\ UNCHANGED <<config, page, http, runs, inbox>>

\* the for loop over the candidates is exhausted
EndOfChain ==
    /\ pc = "select"
    /\ fetch.candidates = <<>>
    /\ pc' = "done"
    /\ log' = log \o (IF ~fetch.yielded_any
                      THEN <<LogRec("WARNING", "mail_checker", "no messages")>>
                      ELSE <<>>)
    /\ StoreUnchanged
    /\ UNCHANGED <<config, page, http, runs, inbox, fetch, proc, trace, prev>>

OpenFake ==
    /\ pc = "select"
    /\ fetch.candidates # <<>>
    /\ Head(fetch.candidates) = BACKEND_FAKE
    /\ fetch' = [Take(fetch) EXCEPT !.yielded_any = TRUE, !.items = FakeItems]
    /\ trace' = Queried(trace, BACKEND_FAKE)
    /\ pc' = "iterate"
    /\ StoreUnchanged
    /\ UNCHANGED <<config, page, http, runs, inbox, proc, prev, log>>

\* the adapter runs up to its for loop
Opened(stage, settings, items, logged) ==
    /\ log' = log \o logged \o StageLog(stage)
    /\ IF stage = "ok"
       THEN /\ fetch' = [Take(fetch) EXCEPT !.settings = settings, !.items = items]
            /\ pc' = "iterate"
       ELSE IF Uncaught(stage)
       THEN /\ fetch' = Unwound(stage)
            /\ pc' = "raised"
       ELSE /\ fetch' = [Take(fetch) EXCEPT !.settings = settings]
            /\ pc' = AdapterEnd(FALSE)

SettingsMissingReturn == "done"

\* "if not settings: continue"
SettingsMissing == "select"

OpenOAuth ==
    /\ pc = "select"
    /\ fetch.candidates # <<>>
    /\ Head(fetch.candidates) = BACKEND_OAUTH
    /\ trace' = Queried(trace, BACKEND_OAUTH)
    /\ \E missing \in MissingCredentials :
          IF ~OutlookSettingsLoaded(missing)
          THEN /\ log' = log \o OutlookSettingsLog(missing)
               /\ fetch' = Take(fetch)
               /\ pc' = SettingsMissing
          ELSE \E env \in QueryEnvironment, stage \in OAuthStages :
                  LET settings == _load_common_mail_settings(env.lookback, env.max) IN
                  Opened(stage, settings,
                         NewestFirst(Recent(inbox, settings.lookback_minutes)),
                         CommonSettingsLog(env.lookback, env.max))
    /\ StoreUnchanged
    /\ UNCHANGED <<config, page, http, runs, inbox, proc, prev>>

OpenCom ==
    /\ pc = "select"
    /\ fetch.candidates # <<>>
    /\ Head(fetch.candidates) = BACKEND_COM
    /\ trace' = Queried(trace, BACKEND_COM)
    /\ \E env \in QueryEnvironment, stage \in ComStages :
          Opened(stage, _load_common_mail_settings(env.lookback, env.max),
                 NewestFirst(inbox), CommonSettingsLog(env.lookback, env.max))
    /\ StoreUnchanged
    /\ UNCHANGED <<config, page, http, runs, inbox, proc, prev>>

\* the adapter yields the message of the item at the head of its iterable
Yield(item) ==
    /\ fetch' = [fetch EXCEPT !.items = Tail(@), !.processed = @ + 1,
                              !.yielded = TRUE, !.yielded_any = TRUE]
    /\ proc' = [proc EXCEPT !.message = MessageOf(item)]
    /\ trace' = [trace EXCEPT !.delivered =
                    Append(@, [backend |-> fetch.candidate, message |-> MessageOf(item)])]
    /\ pc' = "handle"

\* an exception inside the adapter's for loop, which no except clause encloses
LoopRaises ==
    /\ fetch' = Unwound("item error")
    /\ proc' = ProcStart
    /\ pc' = "raised"
    /\ UNCHANGED trace

AdapterEnds ==
    /\ pc' = AdapterEnd(fetch.yielded)
    /\ UNCHANGED <<fetch, proc, trace>>

IterateFake ==
    /\ pc = "iterate"
    /\ fetch.candidate = BACKEND_FAKE
    /\ IF fetch.items = <<>>
       THEN pc' = "done" /\ UNCHANGED <<fetch, proc, trace>>
       ELSE Yield(Head(fetch.items))
    /\ StoreUnchanged
    /\ UNCHANGED <<config, page, http, runs, inbox, prev, log>>

IterateOAuth ==
    /\ pc = "iterate"
    /\ fetch.candidate = BACKEND_OAUTH
    /\ \E raises \in BOOLEAN :
          IF raises THEN LoopRaises
          ELSE IF fetch.items = <<>> \/ fetch.processed >= fetch.settings.max_messages
          THEN AdapterEnds
          ELSE IF ~Head(fetch.items).is_message
          THEN /\ fetch' = [fetch EXCEPT !.items = Tail(@)]
               /\ UNCHANGED <<pc, proc, trace>>
          ELSE Yield(Head(fetch.items))
    /\ StoreUnchanged
    /\ UNCHANGED <<config, page, http, runs, inbox, prev, log>>

IterateCom ==
    /\ pc = "iterate"
    /\ fetch.candidate = BACKEND_COM
    /\ \E raises \in BOOLEAN :
          IF raises THEN LoopRaises
          ELSE IF fetch.items = <<>> \/ fetch.processed >= fetch.settings.max_messages
          THEN AdapterEnds
          ELSE IF Head(fetch.items).age > fetch.settings.lookback_minutes
          THEN AdapterEnds
          ELSE Yield(Head(fetch.items))
    /\ StoreUnchanged
    /\ UNCHANGED <<config, page, http, runs, inbox, prev, log>>

\* ----------------------------------------------------------- process_mailbox
AnyRequestNumber(message) == TRUE

\* "if not message.request_number" is false
HasRequestNumber(message) == message.request_number # ""

SkipOutcome(message) == << <<"Propusk pisma ot", message.sender, "ne najden nomer zayavki">> >>

SkippedSilently(results, message) == results

\* results.append(...) of the skip branch
Skipped(results, message) == Append(results, SkipOutcome(message))

\* "; ".join(part for part in summary_parts if part)
Summary(message, status_applied, comment_saved) ==
    LET parts ==
            << <<"Zayavka", message.request_number>> >>
            \o (IF message.position_number # None
                THEN << <<"poziciya", message.position_number>> >> ELSE <<>>)
            \o (IF status_applied /\ message.detected_status # None
                THEN << <<"status ->", message.detected_status>> >> ELSE <<>>)
            \o (IF comment_saved THEN << <<"kommentarij obnovlyon">> >> ELSE <<>>)
    IN IF parts = <<>>
       THEN << <<"Dannye iz pisma ne primeneny", message.request_number>> >>
       ELSE parts

MailUnchanged == UNCHANGED <<config, page, http, runs, inbox, pc, fetch, proc, trace, prev>>

\* the loop body for a message without request number: warning, skip outcome, continue
Skip ==
    /\ pc = "handle"
    /\ ~HasRequestNumber(proc.message)
    /\ log' = Append(log, LogRec("WARNING", "mail_checker", "no request number"))
    /\ proc' = [proc EXCEPT !.results = Skipped(@, proc.message)]
    /\ pc' = "iterate"
    /\ StoreUnchanged
    /\ UNCHANGED <<config, page, http, runs, inbox, fetch, trace, prev>>

Swallowed(exc) == FALSE

\* no try statement encloses the store calls of process_mailbox: an exception of
\* update_status or update_comment leaves process_mailbox
Propagates(exc) == exc # None

StatusAlways(message) == TRUE

\* "if message.detected_status"
StatusDetected(message) == message.detected_status # None

\* the loop body up to and including the update_status call
ApplyStatus ==
    /\ pc = "handle"
    /\ HasRequestNumber(proc.message)
    /\ \E fault \in Faults :
          IF StatusDetected(proc.message)
          THEN LET out == update_status(requests, nextId, clock,
                                        proc.message.request_number,
                                        proc.message.detected_status,
                                        proc.message.position_number, fault)
               IN /\ requests' = out.requests
                  /\ log' = log \o out.log
                  /\ proc' = [proc EXCEPT !.status_applied = out.ret.updated]
                  /\ pc' = IF Propagates(out.ret.raised) THEN "raised" ELSE "comment"
          ELSE /\ fault = "none"
               /\ proc' = [proc EXCEPT !.status_applied = FALSE]
               /\ pc' = "comment"
               /\ UNCHANGED <<requests, log>>
    /\ UNCHANGED <<nextId, clock, ret, inbox, fetch, trace, prev, config, page, http, runs>>

\* the update_comment call and the rest of the loop body
ApplyComment ==
    /\ pc = "comment"
    /\ \E fault \in Faults :
          IF proc.message.comment # <<>>
          THEN LET out == update_comment(requests, nextId,
                                         proc.message.request_number,
                                         proc.message.comment,
                                         proc.message.position_number,
                                         ROBOT_AUTHOR, fault)
               IN /\ requests' = out.requests
                  /\ log' = log \o out.log
                  /\ IF Propagates(out.ret.raised)
                     THEN pc' = "raised" /\ UNCHANGED proc
                     ELSE /\ pc' = "iterate"
                          /\ proc' = [proc EXCEPT !.results =
                                Append(@, Summary(proc.message, proc.status_applied,
                                                  out.ret.updated))]
          ELSE /\ fault = "none"
               /\ pc' = "iterate"
               /\ proc' = [proc EXCEPT !.results =
                                Append(@, Summary(proc.message, proc.status_applied, FALSE))]
               /\ UNCHANGED <<requests, log>>
    /\ UNCHANGED <<nextId, clock, ret, inbox, fetch, trace, prev, config, page, http, runs>>

\* ------------------------------------------------------------- store callers
Returns(out) ==
    /\ requests' = out.requests
    /\ nextId' = out.nextId
    /\ ret' = out.ret
    /\ log' = out.log
    /\ UNCHANGED clock
    /\ MailUnchanged

AddRequestCall(request_number, position_number, comment, comment_author, fault) ==
    Returns(add_request(requests, nextId, clock, request_number, position_number,
                        comment, comment_author, fault))

UpdateStatusCall(request_number, new_status, position_number, fault) ==
    Returns(update_status(requests, nextId, clock, request_number, new_status,
                          position_number, fault))

UpdateCommentCall(request_number, comment, position_number, author, fault) ==
    Returns(update_comment(requests, nextId, request_number, comment,
                           position_number, author, fault))

GetRequestsCall(limit, fault) ==
    \E listing \in Listings(requests) :
        Returns(get_requests(requests, nextId, listing, limit, fault))

\* limit=None and limit=1
LimitInputs == {<<>>, <<1>>}

AddRequest ==
    \E k \in Keys : AddRequestCall(k[1], k[2], ManualComment, ManualAuthor, "none")

UpdateStatus ==
    \E rn \in RequestNumbers, st \in StatusInputs, pn \in PositionNumbers \cup {None} :
        UpdateStatusCall(rn, st, pn, "none")

UpdateComment ==
    \E rn \in RequestNumbers, c \in CommentInputs, pn \in PositionNumbers \cup {None} :
        UpdateCommentCall(rn, c, pn, ROBOT_AUTHOR, "none")

GetRequests == \E limit \in LimitInputs : GetRequestsCall(limit, "none")

\* _utc_now() moves on
Tick ==
    /\ clock < MaxClock
    /\ clock' = clock + 1
    /\ UNCHANGED <<requests, nextId, ret, log>>
    /\ MailUnchanged

\* ------------------------------------------------------------------ notifier
\* calls of request.urlopen in one run of the model
MaxCalls == 1

\* a value that Python's "or" and "not" take as false
Falsy(value) == value \in {None, ""}

\* value or default
Or(value, default) == IF Falsy(value) THEN default ELSE value

\* what the environment can hold in OMIS_TELEGRAM_TOKEN and OMIS_TELEGRAM_CHAT_ID
Configurations == [TELEGRAM_TOKEN : {None, "bot-token"}, TELEGRAM_CHAT_ID : {"", "chat"}]

\* the token and chat_id arguments of send_message
TokenArguments == {None, "other-token"}
ChatArguments == {None, "other-chat"}

Texts == {<<"Zayavka", "101", "davno", "bez", "obnovlenij">>}

\* what the endpoint does with a call: the connection fails, or a response arrives
Responses ==
    [code : {200}, body : {"", "{}", "{ok: true}", "{ok: false}", "<html>"}, connects : {TRUE}]
    \cup {[code |-> 204, body |-> "", connects |-> TRUE],
          [code |-> 500, body |-> "<html>", connects |-> TRUE],
          [code |-> 0, body |-> "", connects |-> FALSE]}

\* request.urlopen: URLError when the connection fails, HTTPError for an error status
urlopen(response) ==
    IF ~response.connects THEN "URLError"
    ELSE IF response.code >= 400 THEN "HTTPError"
    ELSE None

\* json.loads of the bodies above
json_loads(body) ==
    CASE body = "{}" -> [raised |-> None, has_ok |-> FALSE, ok |-> FALSE]
      [] body = "{ok: true}" -> [raised |-> None, has_ok |-> TRUE, ok |-> TRUE]
      [] body = "{ok: false}" -> [raised |-> None, has_ok |-> TRUE, ok |-> FALSE]
      [] OTHER -> [raised |-> "JSONDecodeError", has_ok |-> FALSE, ok |-> FALSE]

OkRequired(result) == result.has_ok /\ result.ok

\* result.get("ok", True)
GetOk(result) == IF result.has_ok THEN result.ok ELSE TRUE

Sent(returned, calls, logged) == [ret |-> returned, calls |-> calls, log |-> logged]

\* response.getcode() != 200
NotOk(code) == code # 200

\* the with-block issues one request.urlopen
Attempt(call) == <<call>>

send_message(text, token, chat_id, cfg, response) ==
    LET tok == Or(token, cfg.TELEGRAM_TOKEN)
        chat == Or(chat_id, cfg.TELEGRAM_CHAT_ID)
        call == [token |-> tok, chat_id |-> chat, text |-> text, response |-> response]
        failed == <<LogRec("ERROR", "notifier", "Failed to send Telegram message")>>
    IN  IF Falsy(tok) \/ Falsy(chat)
        THEN Sent(ReturnedBool(FALSE), <<>>, <<LogRec("INFO", "notifier", "[FAKE TELEGRAM]")>>)
        ELSE IF urlopen(response) # None
        THEN Sent(ReturnedBool(FALSE), Attempt(call), failed)
        ELSE IF NotOk(response.code)
        THEN Sent(ReturnedBool(FALSE), Attempt(call),
                  <<LogRec("ERROR", "notifier", "Telegram API error")>>)
        ELSE LET result == json_loads(Or(response.body, "{}"))
             IN  IF result.raised # None
                 THEN Sent(ReturnedBool(FALSE), Attempt(call), failed)
                 ELSE Sent(ReturnedBool(GetOk(result)), Attempt(call),
                           IF GetOk(result) THEN <<>>
                           ELSE <<LogRec("ERROR", "notifier", "Telegram returned failure")>>)

SendMessageCall(text, token, chat_id, response) ==
    /\ Len(http) < MaxCalls
    /\ LET out == send_message(text, token, chat_id, config, response)
       IN  /\ ret' = out.ret
           /\ http' = http \o out.calls
           /\ log' = out.log
    /\ UNCHANGED <<requests, nextId, clock, config, page, runs>>
    /\ UNCHANGED <<inbox, pc, fetch, proc, trace, prev>>

SendMessage ==
    \E text \in Texts, token \in TokenArguments, chat_id \in ChatArguments,
       response \in Responses :
        SendMessageCall(text, token, chat_id, response)

\* the names that module database defines
DatabaseNames ==
    {"LOGGER", "DEFAULT_STATUS", "ROBOT_AUTHOR", "_ensure_db_dir", "_utc_now",
     "_ensure_schema", "_connect", "init_db", "add_request", "update_status",
     "update_comment", "get_requests"}

\* the minutes argument of notify_delays
Thresholds == {0, 60}

\* notify_delays: the lookup of database.get_delayed_requests in its first statement
\* fails, so that the loop over the delayed rows is never entered
notify_delays(minutes, send) ==
    CASE "get_delayed_requests" \notin DatabaseNames ->
             Sent(Raised("AttributeError"), <<>>, <<>>)

NotifyDelaysCall(minutes, send) ==
    /\ LET out == notify_delays(minutes, send)
       IN  /\ ret' = out.ret
           /\ http' = http \o out.calls
           /\ log' = out.log
    /\ UNCHANGED <<requests, nextId, clock, config, page, runs>>
    /\ UNCHANGED <<inbox, pc, fetch, proc, trace, prev>>

NotifyDelays == \E minutes \in Thresholds, send \in BOOLEAN : NotifyDelaysCall(minutes, send)

\* ----------------------------------------------------------------- web app
\* the answer of a route: the view it redirects to, the message it flashes, and the
\* exception that leaves it
Page(redirect, flash, raised) == [redirect |-> redirect, flash |-> flash, raised |-> raised]

NoPage == Page(None, None, None)

Served(out, answer) == [out |-> out, page |-> answer]

\* the fields of the form as they are posted (None: the field is missing)
FormNumbers == {None, "", "  ", "101", " 102 "}
FormPositions == {"", "12", " 8 "}
FormComments == {<<>>, <<"manual">>}

Forms == [request_number : FormNumbers, position_number : FormPositions,
          comment : FormComments]

\* form.get(name, "")
FormGet(value) == IF value = None THEN "" ELSE value

\* str.strip() on the values of the form
strip(value) ==
    CASE value = "  " -> ""
      [] value = " 102 " -> "102"
      [] value = " 8 " -> "8"
      [] OTHER -> value

\* def add_request(request_number, position_number, comment, comment_author): the
\* parameters of the store's add_request, none of which has a default
AddRequestParameters == <<"request_number", "position_number", "comment", "comment_author">>

\* database.add_request(request_number, position_number, comment): the arguments of the
\* route's call
RouteArguments(request_number, position_number, comment) ==
    <<request_number, position_number, comment>>

\* POST /add_request: a call that leaves a parameter of add_request without a value
\* raises TypeError before the body of add_request runs, and neither except clause of
\* the route (sqlite3.IntegrityError, sqlite3.Error) catches it
add_request_route(rows, id, now, returned, form, fault) ==
    LET request_number == strip(FormGet(form.request_number))
        position_number == strip(FormGet(form.position_number))
        arguments == RouteArguments(request_number, position_number, form.comment)
    IN  IF request_number = "" \/ position_number = ""
        THEN Served(Outcome(rows, id, returned, <<>>),
                    Page("new_request", "required", None))
        ELSE IF Len(arguments) # Len(AddRequestParameters)
        THEN Served(Outcome(rows, id, Raised("TypeError"), <<>>),
                    Page(None, None, "TypeError"))
        ELSE LET out == add_request(rows, id, now, arguments[1], arguments[2],
                                    arguments[3], arguments[4], fault)
             IN  CASE out.ret.raised = None ->
                          Served(out, Page("list_requests", "created", None))
                   [] out.ret.raised = "IntegrityError" ->
                          Served(out, Page("list_requests", "duplicate", None))
                   [] OTHER ->
                          Served([out EXCEPT !.log =
                                     @ \o <<LogRec("ERROR", "app", "add failed")>>],
                                 Page("list_requests", "failure", None))

PostAddRequestCall(form, fault) ==
    /\ LET served == add_request_route(requests, nextId, clock, ret, form, fault)
       IN  /\ requests' = served.out.requests
           /\ nextId' = served.out.nextId
           /\ ret' = served.out.ret
           /\ log' = served.out.log
           /\ page' = served.page
    /\ UNCHANGED <<clock, config, http, runs, inbox, pc, fetch, proc, trace, prev>>

PostAddRequest == \E form \in Forms, fault \in Faults : PostAddRequestCall(form, fault)

\* --------------------------------------------------------- specifications
vars == <<requests, nextId, clock, ret, log, inbox, pc, fetch, proc, trace, prev,
         config, page, http, runs>>

\* the two runs of process_mailbox that may overlap
Runs == {1, 2}

\* a run of process_mailbox over the messages of batch: at is the message the for loop
\* stands at, pc the next store call for it
RunStart(batch) ==
    [batch |-> batch, at |-> 1, pc |-> IF batch = <<>> THEN "done" ELSE "handle",
     status_applied |-> FALSE, results |-> <<>>]

MailIdle ==
    /\ runs = [w \in Runs |-> RunStart(<<>>)]
    /\ pc = "idle"
    /\ fetch = FetchStart(<<>>)
    /\ proc = ProcStart
    /\ trace = TraceStart(<<>>, requests, 0)
    /\ prev = NoRun

\* OMIS_TELEGRAM_TOKEN and OMIS_TELEGRAM_CHAT_ID are not set
NoTelegram == [TELEGRAM_TOKEN |-> None, TELEGRAM_CHAT_ID |-> None]

NotifierIdle ==
    /\ config = NoTelegram
    /\ http = <<>>

\* no form has been submitted
WebIdle == page = NoPage

\* init_db() on a new file: the empty table
Init ==
    /\ requests = {}
    /\ nextId = 1
    /\ clock = 0
    /\ ret = NoReturn
    /\ log = <<>>
    /\ inbox = {}
    /\ MailIdle
    /\ NotifierIdle
    /\ WebIdle

Next == AddRequest \/ UpdateStatus \/ UpdateComment \/ GetRequests \/ Tick

Spec == Init /\ [][Next]_vars

\* the requests an operator has registered before the mail is checked
Registered == {<< <<"101", "12">>, <<"101", "8">> >>,
               << <<"101", "12">>, <<"101", "8">>, <<"102", "8">> >>}

RECURSIVE Register(_)
Register(keys) ==
    IF keys = <<>> THEN Outcome({}, 1, NoReturn, <<>>)
    ELSE LET before == Register(SubSeq(keys, 1, Len(keys) - 1))
             k == keys[Len(keys)]
         IN add_request(before.requests, before.nextId, 0, k[1], k[2],
                        ManualComment, ManualAuthor, "none")

MailInit ==
    /\ \E keys \in Registered :
          /\ requests = Register(keys).requests
          /\ nextId = Register(keys).nextId
    /\ clock = 0
    /\ ret = NoReturn
    /\ log = <<>>
    /\ inbox \in Inboxes
    /\ MailIdle
    /\ NotifierIdle
    /\ WebIdle

\* the calls of process_mailbox: with the flag (whatever the backend), with a backend
\* argument (in one case against another value of the environment), and with neither
Calls ==
    {c \in [use_fake : BOOLEAN, backend : BackendArguments, environment : BackendEnvironment] :
        /\ c.use_fake => c.backend \in {None, "com"} /\ c.environment = None
        /\ (c.backend \notin {None, ""} /\ c.environment # None) =>
               (c.backend = "auto" /\ c.environment = "COM")}

CheckMail == \E c \in Calls : StartRun(c.use_fake, c.backend, c.environment)

DefaultUseLive == FALSE

\* def process_mailbox(use_fake: bool = True, ...): the value of a flag left out
DefaultUseFake == TRUE

\* the calls that leave the flag out: process_mailbox(backend=...), as the mail step of
\* a scenario whose parameters name a backend only
DefaultCalls == [backend : {None, "com", " OAuth "}, environment : {None, "COM"}]

CheckMailDefault ==
    \E c \in DefaultCalls : StartRun(DefaultUseFake, c.backend, c.environment)

MailNext ==
    \/ CheckMail \/ CheckMailDefault
    \/ EndOfChain \/ OpenFake \/ OpenOAuth \/ OpenCom
    \/ IterateFake \/ IterateOAuth \/ IterateCom
    \/ Skip \/ ApplyStatus \/ ApplyComment
    \/ Tick

MailSpec == MailInit /\ [][MailNext]_vars

\* the store API on a storage that can fail
AddRequestOrFail ==
    \E k \in Keys, fault \in Faults :
        AddRequestCall(k[1], k[2], ManualComment, ManualAuthor, fault)

UpdateStatusOrFail ==
    \E rn \in RequestNumbers, st \in StatusInputs, pn \in PositionNumbers \cup {None},
       fault \in Faults :
        UpdateStatusCall(rn, st, pn, fault)

UpdateCommentOrFail ==
    \E rn \in RequestNumbers, c \in CommentInputs, pn \in PositionNumbers \cup {None},
       fault \in Faults :
        UpdateCommentCall(rn, c, pn, ROBOT_AUTHOR, fault)

GetRequestsOrFail == \E limit \in LimitInputs, fault \in Faults : GetRequestsCall(limit, fault)

StorageNext ==
    AddRequestOrFail \/ UpdateStatusOrFail \/ UpdateCommentOrFail \/ GetRequestsOrFail

StorageSpec == Init /\ [][StorageNext]_vars

\* the web form next to the store API
WebNext == PostAddRequest \/ AddRequest \/ Tick

WebSpec == Init /\ [][WebNext]_vars

\* the notifier runs against a table of registered requests, one of which has since
\* been updated
NotifyInit ==
    /\ requests = Register(<< <<"101", "12">>, <<"102", "8">> >>).requests
    /\ nextId = Register(<< <<"101", "12">>, <<"102", "8">> >>).nextId
    /\ clock = 0
    /\ ret = NoReturn
    /\ log = <<>>
    /\ inbox = {}
    /\ MailIdle
    /\ config \in Configurations
    /\ http = <<>>
    /\ WebIdle

NotifyNext == SendMessage \/ NotifyDelays \/ UpdateStatus \/ Tick

NotifySpec == NotifyInit /\ [][NotifyNext]_vars

\* pieces of the texts a mail can carry: numbers after their keywords, a word that looks
\* like the position keyword but is none, a keyword without a number, status keywords,
\* and other words
Fragments ==
    {<<>>, <<"REQ", "101">>, <<"Zayavka", "102">>, <<"pos", "12">>, <<"Poziciya", "8">>,
     <<"poziciyu", "8">>, <<"Zayavka">>, <<"vyehal">>, <<"Pribyl">>, <<"prinyata">>,
     <<"ubyl">>, <<"info">>}

ClassifierTexts == {a \o b : a, b \in Fragments}

\* the mails the classifier is applied to: a subject and a body of one line
ClassifierItems ==
    {[subject |-> subject, body |-> IF line = <<>> THEN <<>> ELSE <<line>>,
      sender |-> "contractor@example.com", age |-> 1, is_message |-> TRUE] :
        subject \in ClassifierTexts, line \in ClassifierTexts}

ClassifyInit ==
    /\ requests = {}
    /\ nextId = 1
    /\ clock = 0
    /\ ret = NoReturn
    /\ log = <<>>
    /\ \E item \in ClassifierItems : inbox = {item}
    /\ MailIdle
    /\ NotifierIdle
    /\ WebIdle

\* an adapter builds the ContractorMessage of the item
Classify ==
    /\ pc = "idle"
    /\ \E item \in inbox : proc' = [proc EXCEPT !.message = MessageOf(item)]
    /\ pc' = "handle"
    /\ StoreUnchanged
    /\ UNCHANGED <<config, page, http, runs, inbox, fetch, trace, prev, log>>

ClassifyNext == Classify

ClassifySpec == ClassifyInit /\ [][ClassifyNext]_vars

\* the message sequences two overlapping runs read: the fixtures, and a mailbox with two
\* mails about request 101
Batches ==
    {_iter_fake_messages,
     [i \in 1..2 |-> MessageOf(NewestFirst({ItemA, ItemC})[i])]}

CurrentReversed(run) == run.batch[Len(run.batch) + 1 - run.at]

\* for message in fetch_contractor_messages(...)
Current(run) == run.batch[run.at]

\* the for loop goes on to the next message, or ends
Advance(run, outcome) ==
    [run EXCEPT !.results = Append(@, outcome),
                !.status_applied = FALSE,
                !.at = @ + 1,
                !.pc = IF run.at = Len(run.batch) THEN "done" ELSE "handle"]

ConcurrentUnchanged ==
    UNCHANGED <<nextId, clock, config, page, http, inbox, pc, fetch, proc, trace, prev>>

\* run w takes its message and makes the update_status call for it, if any
RunStatus(w) ==
    /\ runs[w].pc = "handle"
    /\ LET m == Current(runs[w]) IN
       IF ~HasRequestNumber(m)
       THEN /\ runs' = [runs EXCEPT ![w] = Advance(@, SkipOutcome(m))]
            /\ log' = <<LogRec("WARNING", "mail_checker", "no request number")>>
            /\ UNCHANGED <<requests, ret>>
       ELSE IF StatusDetected(m)
       THEN LET out == update_status(requests, nextId, clock, m.request_number,
                                     m.detected_status, m.position_number, "none")
            IN  /\ requests' = out.requests
                /\ ret' = out.ret
                /\ log' = out.log
                /\ runs' = [runs EXCEPT ![w].pc = "comment",
                                        ![w].status_applied = out.ret.updated]
       ELSE /\ runs' = [runs EXCEPT ![w].pc = "comment"]
            /\ UNCHANGED <<requests, ret, log>>
    /\ ConcurrentUnchanged

\* run w makes the update_comment call for its message and appends the outcome line
RunComment(w) ==
    /\ runs[w].pc = "comment"
    /\ LET m == Current(runs[w])
           out == update_comment(requests, nextId, m.request_number, m.comment,
                                 m.position_number, ROBOT_AUTHOR, "none")
       IN  /\ requests' = out.requests
           /\ ret' = out.ret
           /\ log' = out.log
           /\ runs' = [runs EXCEPT ![w] =
                          Advance(@, Summary(m, runs[w].status_applied, out.ret.updated))]
    /\ ConcurrentUnchanged

\* two runs start on the same table with the same messages to read
ConcurrentInit ==
    /\ \E keys \in Registered :
          /\ requests = Register(keys).requests
          /\ nextId = Register(keys).nextId
    /\ clock = 0
    /\ ret = NoReturn
    /\ log = <<>>
    /\ inbox = {}
    /\ pc = "idle"
    /\ fetch = FetchStart(<<>>)
    /\ proc = ProcStart
    /\ trace = TraceStart(<<>>, requests, 0)
    /\ prev = NoRun
    /\ NotifierIdle
    /\ \E batch \in Batches : runs = [w \in Runs |-> RunStart(batch)]
    /\ WebIdle

StatusCalls == \E w \in Runs : RunStatus(w)

CommentCalls == \E w \in Runs : RunComment(w)

ConcurrentNext == StatusCalls \/ CommentCalls \/ Tick

ConcurrentSpec == ConcurrentInit /\ [][ConcurrentNext]_vars

\* ------------------------------------------------------------------ claims
SameKey(r, request_number, position_number) ==
    /\ r.request_number = request_number
    /\ r.position_number = position_number

Created == <<LogRec("INFO", "database", "created")>>
StatusUpdated == <<LogRec("INFO", "database", "Updated request")>>
Fetched == <<LogRec("DEBUG", "database", "fetched")>>

\* C1: update_status without a position number sets the status of every row of the
\* request number and of no other row; with a position number it sets the status of
\* the one row with that key and leaves every other row, other positions of the same
\* request included, as it was.  No row appears or disappears.
C1_UpdateStatusScope ==
    [][\A rn \in RequestNumbers, pn \in PositionNumbers \cup {None}, st \in StatusInputs :
          UpdateStatusCall(rn, st, pn, "none") =>
              /\ {r.id : r \in requests'} = {r.id : r \in requests}
              /\ Cardinality(requests') = Cardinality(requests)
              /\ \A r \in requests : \E q \in requests' :
                    /\ q.id = r.id
                    /\ IF r.request_number = rn /\ (pn = None \/ r.position_number = pn)
                       THEN /\ q.status = st
                            /\ q.request_number = r.request_number
                            /\ q.position_number = r.position_number
                       ELSE q = r]_vars

\* a call without position has set the status of both rows of request 101 in the same
\* second, and the row of request 102 still has its initial status
C1_Witness ==
    /\ log = StatusUpdated
    /\ clock > 0
    /\ \E a, b, c \in requests :
          /\ a.request_number = "101" /\ b.request_number = "101" /\ a # b
          /\ a.status \in StatusInputs /\ b.status = a.status
          /\ a.status_updated_at = clock /\ b.status_updated_at = clock
          /\ a.created_at = 0 /\ b.created_at = 0
          /\ c.request_number = "102" /\ c.status = DEFAULT_STATUS

KeyUnique ==
    \A a, b \in requests :
        SameKey(a, b.request_number, b.position_number) => a = b

\* C2: the pair (request_number, position_number) is unique in every reachable state,
\* and add_request with a key that is already stored raises IntegrityError and leaves
\* the table, the stored row included, exactly as it was.
C2_UniqueKey ==
    /\ []KeyUnique
    /\ [][\A k \in Keys :
            (/\ \E r \in requests : SameKey(r, k[1], k[2])
             /\ AddRequestCall(k[1], k[2], ManualComment, ManualAuthor, "none")) =>
                /\ ret'.raised = "IntegrityError"
                /\ requests' = requests
                /\ Cardinality({r \in requests' : SameKey(r, k[1], k[2])}) = 1]_vars

\* a second add_request of a stored key has just raised IntegrityError, after the stored
\* row had been updated
C2_Witness ==
    /\ ret = Raised("IntegrityError")
    /\ \E r \in requests : r.status # DEFAULT_STATUS

\* C3: get_requests() called after an add_request that returned an id lists exactly one
\* row with the key of that id, and this row has the default initial status and
\* created_at = status_updated_at.
C3_AddThenGet ==
    [][(log = Created /\ GetRequestsCall(<<>>, "none")) =>
          \E r \in requests :
              /\ r.id = ret.id
              /\ LET hits == {i \in DOMAIN ret'.rows :
                                SameKey(ret'.rows[i], r.request_number, r.position_number)}
                 IN /\ Cardinality(hits) = 1
                    /\ \A i \in hits :
                          /\ ret'.rows[i].status = DEFAULT_STATUS
                          /\ ret'.rows[i].created_at = ret'.rows[i].status_updated_at]_vars

\* get_requests() has listed two rows, one of them just added after the clock moved on
C3_Witness ==
    /\ log = Fetched
    /\ ret.raised = None
    /\ Len(ret.rows) = 2
    /\ \E i \in DOMAIN ret.rows :
          /\ ret.rows[i].id = nextId - 1
          /\ ret.rows[i].status = DEFAULT_STATUS
          /\ ret.rows[i].created_at = clock
          /\ ret.rows[i].status_updated_at = clock
          /\ clock > 0

\* C4: the candidates are taken in the order of the resolved sequence, every message of
\* a run was yielded by the candidate taken last, and once a message has been yielded no
\* further candidate is taken during that run.
C4_FirstProducerEndsChain ==
    /\ [](fetch.raised = None => trace.queried \o fetch.candidates = trace.sequence)
    /\ [](\A i \in DOMAIN trace.delivered :
             trace.delivered[i].backend = trace.queried[Len(trace.queried)])
    /\ [][(trace.delivered # <<>> /\ trace'.queried # trace.queried) =>
             (trace'.delivered = <<>> /\ trace'.queried = <<>>)]_vars

\* an auto run has ended after the OAuth adapter yielded two messages; COM was not taken
C4_Witness ==
    /\ pc = "done"
    /\ trace.sequence = <<"oauth", "com">>
    /\ trace.queried = <<"oauth">>
    /\ Len(trace.delivered) = 2
    /\ fetch.candidates = <<"com">>

\* C5: the sequence a run resolves is <<fake>> with the use-fake flag; the one named
\* adapter for an explicit backend name oauth, com or fake (or the environment naming
\* one when no argument is given); and <<oauth, com>> for auto, whether auto is the
\* argument, the environment's value, the default, or stands in for an unknown name.
C5_BackendSequence ==
    [][\A c \in Calls :
          StartRun(c.use_fake, c.backend, c.environment) =>
              fetch'.candidates =
                  IF c.use_fake THEN <<"fake">>
                  ELSE CASE c.backend = " OAuth " -> <<"oauth">>
                         [] c.backend = "com" -> <<"com">>
                         [] c.backend = "fake" -> <<"fake">>
                         [] c.backend \in {"auto", "imap"} -> <<"oauth", "com">>
                         [] c.backend \in {None, ""} ->
                               CASE c.environment \in {None, "Auto", "pop3"} ->
                                        <<"oauth", "com">>
                                 [] c.environment = "COM" -> <<"com">>
                                 [] c.environment = "oauth" -> <<"oauth">>]_vars

\* a run begun with an unknown backend name has resolved the auto sequence
C5_Witness ==
    /\ pc = "select"
    /\ log = <<LogRec("WARNING", "mail_checker", "unknown backend")>>
    /\ fetch.candidates = <<"oauth", "com">>
    /\ trace.queried = <<>>

Warnings(records) == {i \in DOMAIN records : records[i].level = "WARNING"}

\* C6: a run of process_mailbox in which no candidate yielded a message returns the
\* empty list, has logged exactly one warning, has not raised and has left the table as
\* it was.
C6_ZeroMessagesOneWarning ==
    (pc \in {"done", "raised"} /\ trace.delivered = <<>>) =>
        /\ pc = "done"
        /\ proc.results = <<>>
        /\ Cardinality(Warnings(log)) = 1
        /\ requests = trace.before

\* C7: the generator fetch_contractor_messages never ends with an exception.
C7_ChainNeverRaises == fetch.raised = None

\* C8: the step that handles a message with an empty request_number leaves the table
\* as it was, makes no store call, appends the skip outcome of that message to the
\* results and goes on to ask the chain for the next message.
C8_SkipWithoutRequestNumber ==
    [][(pc = "handle" /\ proc.message.request_number = "" /\ clock' = clock) =>
          /\ requests' = requests
          /\ proc'.results = Append(proc.results, SkipOutcome(proc.message))
          /\ \A i \in DOMAIN log' : i > Len(log) => log'[i].logger # "database"
          /\ pc' = "iterate"
          /\ fetch' = fetch]_vars

\* a COM run has ended in which the second of three messages was skipped
C8_Witness ==
    /\ pc = "done"
    /\ Len(proc.results) = 3
    /\ Len(trace.delivered) = 3
    /\ trace.delivered[2].message.request_number = ""
    /\ proc.results[2] = SkipOutcome(trace.delivered[2].message)
    /\ proc.results[3][1] = <<"Zayavka", "102">>
    /\ requests # trace.before

\* C9: when process_mailbox returns, its list has one outcome per message the chain
\* yielded, in the order of the messages: the skip outcome for a message without request
\* number, a summary beginning with the request number otherwise; the list is empty
\* exactly when the chain yielded no message.
C9_OneOutcomePerMessage ==
    pc = "done" =>
        /\ Len(proc.results) = Len(trace.delivered)
        /\ \A i \in DOMAIN trace.delivered :
              LET m == trace.delivered[i].message IN
              IF m.request_number = ""
              THEN proc.results[i] = SkipOutcome(m)
              ELSE proc.results[i][1] = <<"Zayavka", m.request_number>>
        /\ (proc.results = <<>> <=> trace.delivered = <<>>)

\* process_mailbox has returned two summaries and a skip for the fallback from OAuth,
\* which failed, to COM
C9_Witness ==
    /\ pc = "done"
    /\ trace.queried = <<"oauth", "com">>
    /\ Len(proc.results) = 3
    /\ \E i \in DOMAIN proc.results : proc.results[i] = SkipOutcome(trace.delivered[i].message)
    /\ \E i \in DOMAIN log : log[i].level = "ERROR"

Messages(delivered) == [i \in DOMAIN delivered |-> delivered[i].message]

\* C10: when a run of process_mailbox returns after the run before it returned with the
\* same sequence of messages, every row has the status, comment and comment_author it
\* had after the earlier run, and no row was added or removed.
C10_ReprocessingIdempotent ==
    (/\ pc = "done"
     /\ prev.valid
     /\ Messages(trace.delivered) = Messages(prev.delivered)) =>
        /\ {r.id : r \in requests} = {q.id : q \in prev.requests}
        /\ \A r \in requests : \A q \in prev.requests :
              q.id = r.id =>
                  /\ r.status = q.status
                  /\ r.comment = q.comment
                  /\ r.comment_author = q.comment_author
                  /\ r.request_number = q.request_number
                  /\ r.position_number = q.position_number

\* the second of two runs over the same three messages has returned, a second later:
\* a row has its content of the first run and a later status_updated_at
C10_Witness ==
    /\ pc = "done"
    /\ prev.valid
    /\ Len(trace.delivered) = 3
    /\ Messages(trace.delivered) = Messages(prev.delivered)
    /\ \E r \in requests : \E q \in prev.requests :
          /\ q.id = r.id
          /\ r.status = "podryadchik na meste"
          /\ r.comment_author = ROBOT_AUTHOR
          /\ q.status = r.status /\ q.comment = r.comment
          /\ r.status_updated_at > q.status_updated_at

\* the messages of a batch that write the status of row r, by their place in the batch
StatusWriters(r, delivered) ==
    {i \in DOMAIN delivered :
        /\ delivered[i].message.request_number = r.request_number
        /\ delivered[i].message.position_number \in {None, r.position_number}
        /\ delivered[i].message.detected_status # None}

MaxOf(S) == CHOOSE x \in S : \A y \in S : x >= y

\* C11: when process_mailbox returns, every row that a message of the batch with a
\* detected status matched has the status of the last such message in processing order,
\* whatever the received_at of the messages and whatever status the row had; a row no
\* such message matched has the status it had before the batch.
C11_LastProcessedStatusWins ==
    pc = "done" =>
        \A r \in requests :
            LET writers == StatusWriters(r, trace.delivered) IN
            IF writers = {}
            THEN \E q \in trace.before : q.id = r.id /\ q.status = r.status
            ELSE r.status = trace.delivered[MaxOf(writers)].message.detected_status

\* a live batch was processed newest first: the row of 101/12 ends with the status of
\* the older mail, written over the status of the newer one
C11_Witness ==
    /\ pc = "done"
    /\ Len(trace.delivered) = 2
    /\ trace.delivered[1].message.received_at > trace.delivered[2].message.received_at
    /\ trace.delivered[1].message.detected_status = "podryadchik v puti"
    /\ trace.delivered[2].message.detected_status = "podryadchik na meste"
    /\ \E r \in requests :
          /\ r.request_number = "101" /\ r.position_number = "12"
          /\ StatusWriters(r, trace.delivered) = {1, 2}
          /\ r.status = "podryadchik na meste"

CommentUpdated == <<LogRec("INFO", "database", "Updated comment")>>

\* C12: update_comment without a position number writes the comment and the author to
\* every row of the request number, with a position number to the one row with that key;
\* on those rows status, status_updated_at and created_at stay as they were, every other
\* row stays as it was, and no row appears or disappears.
C12_UpdateCommentScope ==
    [][\A rn \in RequestNumbers, pn \in PositionNumbers \cup {None}, c \in CommentInputs :
          UpdateCommentCall(rn, c, pn, ROBOT_AUTHOR, "none") =>
              /\ {r.id : r \in requests'} = {r.id : r \in requests}
              /\ Cardinality(requests') = Cardinality(requests)
              /\ \A r \in requests : \E q \in requests' :
                    /\ q.id = r.id
                    /\ IF r.request_number = rn /\ (pn = None \/ r.position_number = pn)
                       THEN q = [r EXCEPT !.comment = c, !.comment_author = ROBOT_AUTHOR]
                       ELSE q = r]_vars

\* a call without position, a second after the status write, has given both rows of
\* request 101 the comment and the author; their status and times are those of before,
\* and the row of request 102 keeps the comment it was added with
C12_Witness ==
    /\ log = CommentUpdated
    /\ clock > 0
    /\ \E a, b, c \in requests :
          /\ a.request_number = "101" /\ b.request_number = "101" /\ a # b
          /\ a.comment \in CommentInputs /\ b.comment = a.comment
          /\ a.comment_author = ROBOT_AUTHOR /\ b.comment_author = ROBOT_AUTHOR
          /\ a.status \in StatusInputs /\ a.status_updated_at < clock
          /\ b.status = DEFAULT_STATUS /\ b.created_at = b.status_updated_at
          /\ c.request_number = "102" /\ c.comment = ManualComment
          /\ c.comment_author = ManualAuthor

\* the rows the writes for message m address
Addressed(rows, m) ==
    {r \in rows : /\ r.request_number = m.request_number
                  /\ m.position_number \in {None, r.position_number}}

\* the step of process_mailbox that writes the status of the current message
StatusWrite == pc = "handle" /\ pc' = "comment" /\ proc.message.detected_status # None

\* the step of process_mailbox that writes the comment of the current message
CommentWrite == pc = "comment" /\ pc' = "iterate"

\* C13 as claimed: after the status write and after the comment write of a message, every
\* row the write addressed has status_updated_at equal to the time of the write.
C13_StampOnEveryWrite ==
    [][(StatusWrite \/ CommentWrite) =>
          \A r \in Addressed(requests', proc.message) : r.status_updated_at = clock]_vars

\* C13, amended: the status write of a message sets status_updated_at of every row it
\* addresses to the time of the write, whatever the received_at of the message, and of
\* no other row; the comment write leaves status_updated_at of every row as it was.
C13_StampOnStatusWriteOnly ==
    [][/\ StatusWrite =>
             /\ \A r \in Addressed(requests', proc.message) : r.status_updated_at = clock
             /\ \A r \in requests' \ Addressed(requests', proc.message) : r \in requests
       /\ CommentWrite =>
             \A r \in requests' : \E q \in requests :
                 q.id = r.id /\ q.status_updated_at = r.status_updated_at]_vars

\* the comment of a message was written a second after its status: the row has the
\* robot's comment and the time of the status write, which is not the received_at
C13_Witness ==
    /\ pc = "iterate"
    /\ clock > 0
    /\ \E r \in Addressed(requests, proc.message) :
          /\ r.status = proc.message.detected_status
          /\ r.comment = proc.message.comment
          /\ r.comment_author = ROBOT_AUTHOR
          /\ r.status_updated_at < clock
          /\ r.status_updated_at # proc.message.received_at

NotFoundStatus == <<LogRec("WARNING", "database", "No request found (status)")>>
NotFoundComment == <<LogRec("WARNING", "database", "No request found (comment)")>>

Matches(rows, rn, pn) ==
    \E r \in rows : r.request_number = rn /\ (pn = None \/ r.position_number = pn)

\* C14: update_status and update_comment return true exactly when a row matches the
\* request number and, if given, the position number; when no row matches they return
\* false, raise nothing, log a warning and leave the table as it was.
C14_UpdatedIffMatched ==
    [][\A rn \in RequestNumbers, pn \in PositionNumbers \cup {None} :
          /\ \A st \in StatusInputs :
                UpdateStatusCall(rn, st, pn, "none") =>
                    /\ ret'.raised = None
                    /\ ret'.updated = Matches(requests, rn, pn)
                    /\ ~Matches(requests, rn, pn) =>
                          (requests' = requests /\ log' = NotFoundStatus)
          /\ \A c \in CommentInputs :
                UpdateCommentCall(rn, c, pn, ROBOT_AUTHOR, "none") =>
                    /\ ret'.raised = None
                    /\ ret'.updated = Matches(requests, rn, pn)
                    /\ ~Matches(requests, rn, pn) =>
                          (requests' = requests /\ log' = NotFoundComment)]_vars

\* update_status has returned false for a key that is not stored although another
\* position of the same request is
C14_Witness ==
    /\ log = NotFoundStatus
    /\ ret = ReturnedBool(FALSE)
    /\ \E r \in requests : r.request_number = "101"
    /\ \E pn \in PositionNumbers : ~Matches(requests, "101", pn)

\* the records that have not been updated for more than the threshold
Delayed(rows, now, minutes) == {r \in rows : r.status_updated_at < now - minutes * 60}

\* C15: the notifier obtains from the store exactly the records whose status_updated_at
\* is strictly older than now minus the threshold: notify_delays returns, without an
\* exception, one notification for each of them and none for a record updated at the
\* boundary or later.
C15_DelayedStrictlyOlder ==
    [][\A minutes \in Thresholds, send \in BOOLEAN :
          NotifyDelaysCall(minutes, send) =>
              /\ ret'.raised = None
              /\ Len(ret'.rows) = Cardinality(Delayed(requests, clock, minutes))]_vars

\* C16: notify_delays with send=false returns the list that the call with send=true
\* returns for the same table and threshold, and makes no HTTP call.
C16_DryRunSameTexts ==
    [][\A minutes \in Thresholds :
          NotifyDelaysCall(minutes, FALSE) =>
              /\ ret'.raised = None
              /\ ret' = notify_delays(minutes, TRUE).ret
              /\ http' = http]_vars

Configured(token, chat_id) ==
    /\ ~Falsy(Or(token, config.TELEGRAM_TOKEN))
    /\ ~Falsy(Or(chat_id, config.TELEGRAM_CHAT_ID))

\* send_message never raises; without a token or a chat id it makes no HTTP call and
\* returns false; otherwise it makes exactly one, and returns false when the call
\* raises or the response is not a success
AtMostOneAttempt ==
    \A text \in Texts, token \in TokenArguments, chat_id \in ChatArguments,
       response \in Responses :
        SendMessageCall(text, token, chat_id, response) =>
            /\ ret'.raised = None
            /\ ~Configured(token, chat_id) => (http' = http /\ ret' = ReturnedBool(FALSE))
            /\ Configured(token, chat_id) =>
                  /\ Len(http') = Len(http) + 1
                  /\ SubSeq(http', 1, Len(http)) = http
                  /\ (urlopen(response) # None \/ response.code # 200) =>
                         ret' = ReturnedBool(FALSE)

\* notify_delays attempts one delivery for every delayed record, whatever the attempts
\* before it gave, and returns one notification for each
HandlesEveryDelayed ==
    \A minutes \in Thresholds :
        NotifyDelaysCall(minutes, TRUE) =>
            /\ ret'.raised = None
            /\ Len(ret'.rows) = Cardinality(Delayed(requests, clock, minutes))
            /\ Len(http') - Len(http) =
                   IF Configured(None, None)
                   THEN Cardinality(Delayed(requests, clock, minutes)) ELSE 0

\* C17: send_message never raises and makes at most one delivery attempt per call (none
\* without a token or a chat id, exactly one otherwise, false and no retry on a failure),
\* so that notify_delays handles every delayed record even when a notification fails.
C17_FailedSendDoesNotStopNotifier == [][AtMostOneAttempt /\ HandlesEveryDelayed]_vars

SendMessageContract == [][AtMostOneAttempt]_vars

\* the value send_message returns
Success == ret.updated

\* C18 as claimed: send_message returns true only when the response code is 200 and the
\* JSON body carries an ok field that is true; with any other code, with ok false and
\* with no ok field it returns false.
C18_SuccessNeedsOkField ==
    [][\A text \in Texts, token \in TokenArguments, chat_id \in ChatArguments,
          response \in Responses :
          SendMessageCall(text, token, chat_id, response) =>
              (Success' <=> /\ Configured(token, chat_id)
                            /\ response.connects
                            /\ response.code = 200
                            /\ response.body = "{ok: true}")]_vars

\* C18, amended: send_message returns true exactly when the response code is 200 and the
\* body is empty or a JSON object whose ok field is absent or true; with any other code,
\* with ok false and with a body that is not JSON it returns false.
C18_SuccessUnlessOkFalse ==
    [][\A text \in Texts, token \in TokenArguments, chat_id \in ChatArguments,
          response \in Responses :
          SendMessageCall(text, token, chat_id, response) =>
              /\ ret'.raised = None
              /\ Success' <=> /\ Configured(token, chat_id)
                              /\ response.connects
                              /\ response.code = 200
                              /\ response.body \in {"", "{}", "{ok: true}"}]_vars

\* a call answered with 200 and a body without an ok field has returned true
C18_Witness ==
    /\ Len(http) = 1
    /\ http[1].response = [code |-> 200, body |-> "{}", connects |-> TRUE]
    /\ http[1].token = "bot-token"
    /\ Success
    /\ log = <<>>

DatabaseError == LogRec("ERROR", "database", "Database error")

\* the call has failed: the table and the id counter are as before, the error has reached
\* the caller, and _connect has logged it once
RolledBack ==
    /\ requests' = requests
    /\ nextId' = nextId
    /\ ret'.raised = "Error"
    /\ Cardinality({i \in DOMAIN log' : log'[i] = DatabaseError}) = 1

\* C19: every store operation is all or nothing: when the storage works its changes are in
\* the table once it returns, and when the storage fails the table is exactly as before
\* the call and the error is raised to the caller, with one attempt only.
C19_AllOrNothing ==
    [][/\ \A k \in Keys :
             /\ AddRequestCall(k[1], k[2], ManualComment, ManualAuthor, "commit") =>
                    (RolledBack \/ (ret'.raised = "IntegrityError" /\ requests' = requests))
             /\ AddRequestCall(k[1], k[2], ManualComment, ManualAuthor, "none") =>
                    (ret'.raised = None =>
                        /\ \E r \in requests' \ requests : SameKey(r, k[1], k[2])
                        /\ requests \subseteq requests')
       /\ \A rn \in RequestNumbers, pn \in PositionNumbers \cup {None} :
             /\ \A st \in StatusInputs :
                   /\ UpdateStatusCall(rn, st, pn, "commit") => RolledBack
                   /\ UpdateStatusCall(rn, st, pn, "none") =>
                          /\ ret'.raised = None
                          /\ \A r \in Addressed(requests', [request_number |-> rn,
                                                            position_number |-> pn]) :
                                 r.status = st
             /\ \A c \in CommentInputs :
                   /\ UpdateCommentCall(rn, c, pn, ROBOT_AUTHOR, "commit") => RolledBack
                   /\ UpdateCommentCall(rn, c, pn, ROBOT_AUTHOR, "none") =>
                          /\ ret'.raised = None
                          /\ \A r \in Addressed(requests', [request_number |-> rn,
                                                            position_number |-> pn]) :
                                 r.comment = c
       /\ \A limit \in LimitInputs :
             /\ GetRequestsCall(limit, "commit") => RolledBack
             /\ GetRequestsCall(limit, "none") => (ret'.raised = None /\ requests' = requests)]_vars

\* update_status has failed on a table in which it had a row to change: the row still has
\* the status it was created with
C19_Witness ==
    /\ ret = Raised("Error")
    /\ log = <<DatabaseError, LogRec("ERROR", "database", "Failed to update status")>>
    /\ \E r \in requests : r.status = DEFAULT_STATUS
    /\ \E r \in requests : r.status \in StatusInputs

CredentialsWarning == LogRec("WARNING", "mail_checker", "Outlook credentials missing")

\* the generator reaches the token backend and finds its credentials incomplete
CredentialsMissing ==
    /\ pc = "select"
    /\ fetch.candidates # <<>>
    /\ Head(fetch.candidates) = BACKEND_OAUTH
    /\ log' = Append(log, CredentialsWarning)

\* C20: when the credentials of the token backend are missing, the backend is skipped:
\* its adapter is not started and reads nothing, no exception leaves the generator, and
\* the chain goes on to the next candidate, which is the COM adapter in auto mode; with
\* no candidate left the run ends with an empty result.
C20_MissingCredentialsSkipBackend ==
    [][/\ CredentialsMissing =>
             /\ pc' = "select"
             /\ fetch'.raised = None
             /\ fetch'.candidates = Tail(fetch.candidates)
             /\ fetch'.settings = NoSettings /\ fetch'.items = <<>>
             /\ trace'.delivered = trace.delivered
             /\ requests' = requests
             /\ trace.sequence = <<BACKEND_OAUTH, BACKEND_COM>> =>
                    Head(fetch'.candidates) = BACKEND_COM
       /\ (/\ pc' = "done"
           /\ trace'.sequence = <<BACKEND_OAUTH>>
           /\ \E i \in DOMAIN log' : log'[i] = CredentialsWarning) =>
              (proc'.results = <<>> /\ fetch'.raised = None)]_vars

\* in auto mode the token backend was skipped for its credentials and the COM adapter
\* then delivered the mail
C20_Witness ==
    /\ pc = "done"
    /\ trace.sequence = <<BACKEND_OAUTH, BACKEND_COM>>
    /\ \E i \in DOMAIN log : log[i] = CredentialsWarning
    /\ Len(trace.delivered) > 0
    /\ \A i \in DOMAIN trace.delivered : trace.delivered[i].backend = BACKEND_COM
    /\ proc.results # <<>>

\* the only candidate was the token backend without credentials: the run has ended
\* with an empty result
C20_WitnessEmpty ==
    /\ pc = "done"
    /\ trace.sequence = <<BACKEND_OAUTH>>
    /\ \E i \in DOMAIN log : log[i] = CredentialsWarning
    /\ proc.results = <<>>

\* the record r is still stored after the step, with its id, key and created_at
Kept(r, rows) ==
    \E q \in rows : /\ q.id = r.id
                    /\ q.request_number = r.request_number
                    /\ q.position_number = r.position_number
                    /\ q.created_at = r.created_at

\* C21: no operation deletes a stored record or changes its id, its key or its created_at:
\* every record stored before a step is stored after it with the same id, key and
\* created_at, so that the set of stored keys only grows.
C21_RecordsKept == [][\A r \in requests : Kept(r, requests')]_vars

\* a record created at time 0 has had its status and its comment written at time 1, and
\* an add_request for a stored key has failed
C21_Witness ==
    /\ clock = 1
    /\ ret.raised = "IntegrityError"
    /\ \E r \in requests : /\ r.created_at = 0
                           /\ r.status_updated_at = 1
                           /\ r.status \in StatusInputs
                           /\ r.comment \in CommentInputs

\* process_mailbox is at the status write or at the comment write of a message
Handling == pc \in {"handle", "comment"} /\ pc' # pc

Known(rows, request_number) == \E r \in rows : r.request_number = request_number

IdsAndKeys(rows) == {<<r.id, r.request_number, r.position_number>> : r \in rows}

\* C22 as claimed: once process_mailbox has processed a message with a request number, a
\* record for that request number is stored.
C22_MessageCreatesRecord ==
    [][(CommentWrite /\ HasRequestNumber(proc.message)) =>
          Known(requests', proc.message.request_number)]_vars

\* C22, amended: a record comes into existence through add_request only; process_mailbox
\* updates the records that match a message and creates none, so that after a message
\* with a request number has been processed a record for that request number is stored
\* exactly if one was stored before.
C22_MessageUpdatesOnly ==
    [][Handling =>
          /\ IdsAndKeys(requests') = IdsAndKeys(requests)
          /\ Known(requests', proc.message.request_number)
                 <=> Known(requests, proc.message.request_number)
          /\ Known(requests, proc.message.request_number)
                 <=> Known(trace.before, proc.message.request_number)]_vars

\* a run has processed a message for request 102, which was never registered: no record
\* for 102 is stored, and the message has its outcome line
C22_Witness ==
    /\ pc = "done"
    /\ \E i \in DOMAIN trace.delivered : trace.delivered[i].message.request_number = "102"
    /\ ~Known(requests, "102")
    /\ Known(requests, "101")
    /\ Len(proc.results) = Len(trace.delivered)

\* the item whose message stands classified
Classified(item) == pc = "handle" /\ item \in inbox /\ proc.message = MessageOf(item)

\* the lower-cased words of subject and body
Lowered(item) ==
    LET text == item.subject \o Flatten(item.body) IN {Lower(text[i]) : i \in DOMAIN text}

\* the statuses in the order of their declaration, each with the words of the texts above
\* that contain one of its keywords
Declared ==
    <<[status |-> "zayavka prinyata", words |-> {"prinyata"}],
      [status |-> "podryadchik v puti", words |-> {"vyehal"}],
      [status |-> "podryadchik na meste", words |-> {"pribyl"}],
      [status |-> "podryadchik ubyl", words |-> {"ubyl"}]>>

\* C23: the detected status is the status declared earliest (zayavka prinyata, podryadchik
\* v puti, podryadchik na meste, podryadchik ubyl) among those with a keyword in the
\* lower-cased subject and body, and it is unset when the text has no keyword.
C23_FirstDeclaredStatusWins ==
    \A item \in inbox :
        Classified(item) =>
            LET present == {k \in DOMAIN Declared : Declared[k].words \cap Lowered(item) # {}}
            IN  IF present = {} THEN proc.message.detected_status = None
                ELSE \E k \in present :
                        /\ \A j \in present : k <= j
                        /\ proc.message.detected_status = Declared[k].status

\* the subject names the third status and the body the second: the second is detected
C23_Witness ==
    \E item \in inbox :
        /\ Classified(item)
        /\ item.subject = <<"Pribyl">>
        /\ item.body = << <<"REQ", "101", "vyehal">> >>
        /\ proc.message.detected_status = "podryadchik v puti"

\* a text without a keyword: the status is unset
C23_WitnessUnset ==
    \E item \in inbox :
        /\ Classified(item)
        /\ item.subject = <<"info">>
        /\ item.body = << <<"REQ", "101">> >>
        /\ proc.message.detected_status = None

\* the first match of a pattern in a text, as the claim words it: the digits that follow
\* the leftmost keyword that has digits after it
FirstMatch(keywords, text) ==
    IF \E i, j \in DOMAIN text : i < j /\ Lower(text[i]) \in keywords /\ text[j] \in Digits
    THEN LET i == CHOOSE i \in DOMAIN text :
                      /\ Lower(text[i]) \in keywords
                      /\ \E j \in DOMAIN text : i < j /\ text[j] \in Digits
                      /\ \A h \in 1..(i - 1) :
                             ~(/\ Lower(text[h]) \in keywords
                               /\ \E j \in DOMAIN text : h < j /\ text[j] \in Digits)
             j == CHOOSE j \in DOMAIN text :
                      /\ i < j /\ text[j] \in Digits
                      /\ \A h \in (i + 1)..(j - 1) : text[h] \notin Digits
         IN text[j]
    ELSE None

SubjectThenBody(keywords, item) ==
    IF FirstMatch(keywords, item.subject) # None THEN FirstMatch(keywords, item.subject)
    ELSE FirstMatch(keywords, Flatten(item.body))

\* C24: the request number and the position number are extracted independently, each as
\* the first match in the subject if the subject has one, otherwise as the first match in
\* the body, otherwise absent; a match for one number in the subject does not keep the
\* body from being searched for the other.
C24_NumbersSubjectThenBody ==
    \A item \in inbox :
        Classified(item) =>
            /\ proc.message.request_number =
                   IF SubjectThenBody({"zayavka", "zayavki", "req"}, item) = None THEN ""
                   ELSE SubjectThenBody({"zayavka", "zayavki", "req"}, item)
            /\ proc.message.position_number =
                   SubjectThenBody({"poziciya", "pozicii", "pos"}, item)

\* the subject gives the request number and the body the position number, although
\* the body names a request as well
C24_Witness ==
    \E item \in inbox :
        /\ Classified(item)
        /\ item.subject = <<"REQ", "101">>
        /\ item.body = << <<"Zayavka", "102", "Poziciya", "8">> >>
        /\ proc.message.request_number = "101"
        /\ proc.message.position_number = "8"

\* update_status logs one record of logger "database" whenever it is called and returns
StatusCallLogged ==
    /\ Len(log') = Len(log) + 1
    /\ log'[Len(log')] \in {LogRec("INFO", "database", "Updated request"),
                            LogRec("WARNING", "database", "No request found (status)")}

\* C25: for a message that is not skipped, update_status is called exactly if the message
\* has a detected status: without one the status and status_updated_at of every record
\* stay as they are, and the comment of the message is still written to the records the
\* message addresses.
C25_StatusOnlyWhenDetected ==
    [][/\ (pc = "handle" /\ pc' = "comment") =>
             IF proc.message.detected_status = None
             THEN requests' = requests /\ log' = log /\ ~proc'.status_applied
             ELSE StatusCallLogged
       /\ (pc = "comment" /\ pc' = "iterate" /\ proc.message.detected_status = None) =>
             /\ \A r \in requests' :
                   \E q \in requests :
                      q.id = r.id /\ q.status = r.status
                                  /\ q.status_updated_at = r.status_updated_at
             /\ \A r \in Addressed(requests', proc.message) :
                   r.comment = proc.message.comment /\ r.comment_author = ROBOT_AUTHOR]_vars

\* a message for request 102, position 8, without a status keyword has been processed:
\* the record has the comment of the message and the status it was created with
C25_Witness ==
    /\ pc = "iterate"
    /\ proc.message.request_number = "102"
    /\ proc.message.detected_status = None
    /\ \E r \in requests :
          /\ r.request_number = "102"
          /\ r.status = DEFAULT_STATUS
          /\ r.status_updated_at = r.created_at
          /\ r.comment = proc.message.comment
          /\ r.comment_author = ROBOT_AUTHOR
    /\ \A i \in DOMAIN log : log[i] # LogRec("WARNING", "database", "No request found (status)")

\* the messages of the batch that write the status, or the comment, of record q
StatusMessages(q, batch) ==
    {i \in DOMAIN batch : /\ batch[i].request_number = q.request_number
                          /\ batch[i].position_number \in {None, q.position_number}
                          /\ batch[i].detected_status # None}

CommentMessages(q, batch) ==
    {i \in DOMAIN batch : /\ batch[i].request_number = q.request_number
                          /\ batch[i].position_number \in {None, q.position_number}}

\* record q as a single run over the batch leaves it: the last message that writes a
\* field decides it
AfterSingleRun(q, batch) ==
    [status |-> IF StatusMessages(q, batch) = {} THEN q.status
                ELSE batch[MaxOf(StatusMessages(q, batch))].detected_status,
     comment |-> IF CommentMessages(q, batch) = {} THEN q.comment
                 ELSE batch[MaxOf(CommentMessages(q, batch))].comment,
     comment_author |-> IF CommentMessages(q, batch) = {} THEN q.comment_author
                        ELSE ROBOT_AUTHOR]

\* C26: two runs of process_mailbox over the same messages, interleaved at their store
\* calls, converge: in every state the stored keys are those the runs began with and the
\* status of a record is its status at the beginning or the detected status of a message,
\* and once both runs have finished every record has the status, comment and
\* comment_author that a single run gives it.
C26_ConcurrentRunsConverge ==
    /\ IdsAndKeys(requests) = IdsAndKeys(trace.before)
    /\ \A r \in requests :
          \E q \in trace.before :
             /\ q.id = r.id
             /\ \/ r.status = q.status
                \/ \E i \in DOMAIN runs[1].batch : r.status = runs[1].batch[i].detected_status
             /\ (\A w \in Runs : runs[w].pc = "done") =>
                    /\ r.status = AfterSingleRun(q, runs[1].batch).status
                    /\ r.comment = AfterSingleRun(q, runs[1].batch).comment
                    /\ r.comment_author = AfterSingleRun(q, runs[1].batch).comment_author

\* both runs have finished; a record that two messages of the batch address was last
\* written after the clock had moved on
C26_Witness ==
    /\ \A w \in Runs : runs[w].pc = "done" /\ Len(runs[w].results) = Len(runs[w].batch)
    /\ Len(runs[1].batch) = 3
    /\ \E r \in requests :
          /\ Cardinality(StatusMessages(r, runs[1].batch)) = 2
          /\ r.status = "podryadchik na meste"
          /\ r.status_updated_at = 1

\* run 1 has written the status of its second message while run 2 stands between the
\* status and the comment of its first
C26_WitnessInterleaved ==
    /\ runs[1].at = 2 /\ runs[1].pc = "comment"
    /\ runs[2].at = 1 /\ runs[2].pc = "comment"
    /\ \E r \in requests : r.status = runs[1].batch[2].detected_status

\* the update_comment call of the current message fails with a storage error
CommentFails ==
    /\ pc = "comment"
    /\ Len(log') > Len(log)
    /\ log'[Len(log')] = LogRec("ERROR", "database", "Failed to update comment")

\* record r is as the messages delivered so far leave record q of the table the run
\* began with, when all of them wrote their status and all but the last their comment
AppliedButLastComment(r, q, delivered) ==
    LET batch == Messages(delivered)
        earlier == SubSeq(batch, 1, Len(batch) - 1)
    IN  /\ r.status = AfterSingleRun(q, batch).status
        /\ r.comment = AfterSingleRun(q, earlier).comment
        /\ r.comment_author = AfterSingleRun(q, earlier).comment_author

\* C27: the status write and the comment write of a message are separate transactions:
\* when update_comment fails with a storage error, the status already written for the
\* message stays, and so do the updates of the earlier messages; process_mailbox raises,
\* and no later message is applied.
C27_CommentFailureKeepsStatus ==
    [][/\ CommentFails =>
             /\ pc' = "raised"
             /\ requests' = requests
             /\ proc'.results = proc.results /\ Len(proc.results) = Len(trace.delivered) - 1
             /\ \A r \in requests' :
                   \E q \in trace.before :
                      q.id = r.id /\ AppliedButLastComment(r, q, trace.delivered)
       /\ pc = "raised" => (requests' = requests /\ proc'.results \in {proc.results, <<>>})]_vars

\* the comment of the second fixture message could not be written: the record of request
\* 101, position 12 has the status of the second message and the comment of the first
C27_Witness ==
    /\ pc = "raised"
    /\ Len(trace.delivered) = 2
    /\ Len(log) > 0
    /\ log[Len(log)] = LogRec("ERROR", "database", "Failed to update comment")
    /\ trace.delivered[1].message.comment # trace.delivered[2].message.comment
    /\ \E r \in requests :
          /\ r.request_number = "101" /\ r.position_number = "12"
          /\ r.status = trace.delivered[2].message.detected_status
          /\ r.status # trace.delivered[1].message.detected_status
          /\ r.comment = trace.delivered[1].message.comment
    /\ Len(proc.results) = 1

\* C28: the use-fake flag wins over the backend argument and the environment: a run
\* started with use_fake true resolves <<fake>> whatever the two name, and so does a call
\* that leaves the flag out, since it defaults to true; a run whose sequence is <<fake>>
\* queries no other adapter and delivers the fixture messages only, in their order; and a
\* call that names oauth or com resolves that adapter only if it passed use_fake false.
C28_FixturesFlagWins ==
    [][/\ \A b \in BackendArguments, e \in BackendEnvironment :
             StartRun(TRUE, b, e) => (fetch'.candidates = <<"fake">> /\ log' = <<>>)
       /\ CheckMailDefault => fetch'.candidates = <<"fake">>
       /\ \A c \in Calls :
             (/\ StartRun(c.use_fake, c.backend, c.environment)
              /\ c.backend \in {"com", " OAuth "}
              /\ fetch'.candidates \in {<<"com">>, <<"oauth">>}) => ~c.use_fake
       /\ trace.sequence = <<"fake">> =>
             /\ trace'.sequence = <<"fake">> => trace'.queried \in {<<>>, <<"fake">>}
             /\ \A i \in DOMAIN trace.delivered :
                   /\ i \in DOMAIN _iter_fake_messages
                   /\ trace.delivered[i] =
                          [backend |-> "fake", message |-> _iter_fake_messages[i]]]_vars

\* a run that resolved <<fake>> has ended after delivering every fixture message
C28_Witness ==
    /\ pc = "done"
    /\ trace.sequence = <<"fake">>
    /\ trace.queried = <<"fake">>
    /\ Len(trace.delivered) = Len(_iter_fake_messages)
    /\ Len(trace.delivered) > 0
    /\ trace.delivered[1].message = _iter_fake_messages[1]

\* notify_delays writes nothing: the table is the same after the call, with or without
\* send and whatever the dispatch gave
NotifierLeavesStore ==
    \A minutes \in Thresholds, send \in BOOLEAN :
        NotifyDelaysCall(minutes, send) => (requests' = requests /\ nextId' = nextId)

\* every record that is stale when notify_delays is called is reported by that call,
\* however many calls reported it before
ReportsEveryStale ==
    \A minutes \in Thresholds, send \in BOOLEAN :
        (NotifyDelaysCall(minutes, send) /\ Delayed(requests, clock, minutes) # {}) =>
            /\ ret'.raised = None
            /\ Len(ret'.rows) >= Cardinality(Delayed(requests, clock, minutes))

\* C29: notify_delays leaves the store unchanged whether send is true or false and
\* whatever the dispatch gives, so that a stale record is reported again by every later
\* call of notify_delays until a status write refreshes its status_updated_at.
C29_StaleReportedAgain == [][NotifierLeavesStore /\ ReportsEveryStale]_vars

NotifierFrame == [][NotifierLeavesStore]_vars

\* the form carries a request number and a position number that are not empty
Complete(form) ==
    /\ strip(FormGet(form.request_number)) # ""
    /\ strip(FormGet(form.position_number)) # ""

\* a submission with an empty number makes no store call: the table, the id counter and
\* the last result of the store are as before, and nothing is logged
IncompleteFormIsRefused ==
    \A form \in Forms, fault \in Faults :
        (PostAddRequestCall(form, fault) /\ ~Complete(form)) =>
            /\ requests' = requests /\ nextId' = nextId /\ ret' = ret /\ log' = <<>>
            /\ page' = Page("new_request", "required", None)

\* a complete submission ends in one of the three handled outcomes and redirects to the
\* list
CompleteFormIsHandled ==
    \A form \in Forms, fault \in Faults :
        (PostAddRequestCall(form, fault) /\ Complete(form)) =>
            /\ page'.raised = None
            /\ page'.redirect = "list_requests"
            /\ page'.flash \in {"created", "duplicate", "failure"}
            /\ page'.flash = "created" <=>
                  /\ ret'.raised = None
                  /\ \E r \in requests' \ requests :
                        /\ r.id = ret'.id
                        /\ r.request_number = strip(FormGet(form.request_number))
                        /\ r.position_number = strip(FormGet(form.position_number))
            /\ page'.flash = "duplicate" <=> ret'.raised = "IntegrityError"
            /\ page'.flash = "failure" <=> ret'.raised = "Error"
            /\ page'.flash # "created" => requests' = requests

\* C30: a submission of the form to /add_request with a request number and a position
\* number that are not empty calls the store's add_request and ends in exactly one of
\* three handled outcomes (created, duplicate reported, storage failure reported),
\* redirecting to the list each time; a submission with an empty number makes no store
\* call.
C30_FormSubmissionHandled == [][CompleteFormIsHandled /\ IncompleteFormIsRefused]_vars

FormValidation == [][IncompleteFormIsRefused]_vars

====
